---- MODULE Spec2Model ----
(***************************************************************************)
(* Host-side data management of the NBNXM GPU nonbonded module             *)
(* (nbnxm_gpu_data_mgmt.cpp) together with the accumulation epilogue of    *)
(* the HIP force kernel (nbnxm_hip_kernel.hpp).                            *)
(*                                                                         *)
(* The device is modelled as two in-order streams.  Every operation a      *)
(* handler enqueues is appended to its stream as a record that carries the *)
(* set of operations it is ordered after (same stream, or through a        *)
(* marked event the stream waited on).  Device buffers hold the values     *)
(* that result once the enqueued work has run in enqueue order.            *)
(***************************************************************************)
EXTENDS Integers, Sequences, FiniteSets, TLC

\* ------------------------------------------------------------------ bounds
\* number of MD steps a behaviour runs through
MaxSteps == 2

\* ------------------------------------------------------- program constants
c_clEnergyMemoryMultiplier == 64
c_clShiftMemoryMultiplier == 64
c_clEnergyMemorySize ==
    IF c_clEnergyMemoryMultiplier = 1 THEN 1 ELSE c_clEnergyMemoryMultiplier + 1
c_clShiftMemorySize ==
    IF c_clShiftMemoryMultiplier = 1 THEN 1 ELSE c_clShiftMemoryMultiplier + 1
\* gmx::c_numShiftVectors and gmx::c_centralShiftIndex (pbcutil/ishift.h)
c_numShiftVectors == 45
c_centralShiftIndex == 22
\* atoms per cluster (c_nbnxnGpuClusterSize)
c_clSize == 8
\* sub-groups a cluster pair is split over (1 with a 64-wide wavefront)
c_nbnxnGpuClusterpairSplit == 1

Local == "Local"
NonLocal == "NonLocal"
InteractionLocality == {Local, NonLocal}

\* ------------------------------------------------------------ device buffers
\* A device buffer is its capacity (-1: nullptr) and its contents, kept
\* sparsely: nz maps the indices that hold a nonzero value to that value.
EmptyFn == [j \in {} |-> 0]
NullBuffer == [nalloc |-> -1, nz |-> EmptyFn]

\* allocateDeviceBuffer: n elements of fresh device memory, which holds
\* arbitrary values until it is cleared or written: the model follows the
\* first and the last element of the allocation.
Uninitialized == "uninitialized"
allocateDeviceBuffer(n) ==
    [nalloc |-> n, nz |-> [j \in {0, n - 1} \cap (0..(n - 1)) |-> Uninitialized]]

BufRead(b, i) == IF i \in DOMAIN b.nz THEN b.nz[i] ELSE 0

\* clearDeviceBufferAsync(&b, lo, n, stream): zero-fill of [lo, lo + n)
clearDeviceBuffer(b, lo, n) ==
    [b EXCEPT !.nz = [j \in {k \in DOMAIN b.nz : k < lo \/ k >= lo + n} |-> b.nz[j]]]

\* atomicAdd(&b[i], v)
atomicAdd(b, i, v) ==
    LET nv == BufRead(b, i) + v
        dom == IF nv = 0 THEN DOMAIN b.nz \ {i} ELSE DOMAIN b.nz \cup {i}
    IN [b EXCEPT !.nz = [j \in dom |-> IF j = i THEN nv ELSE b.nz[j]]]

\* copyToDeviceBuffer(&b, host, lo, n, stream) of per-atom or per-shift data
\* whose values the model does not follow: the buffer remembers which host
\* array fills its range [lo, lo + n)
copyToDeviceBuffer(b, host, lo, n) ==
    [nalloc |-> b.nalloc,
     nz |-> [j \in {k \in DOMAIN b.nz : k < lo \/ k >= lo + n} |-> b.nz[j]],
     up |-> [host |-> host, lo |-> lo, n |-> n]]
\* the device buffer holds the data of the host array over [lo, lo + n)
HoldsHostData(b, host, lo, n) ==
    /\ "up" \in DOMAIN b
    /\ b.up.host = host /\ b.up.lo <= lo /\ lo + n <= b.up.lo + b.up.n
    /\ lo + n <= b.nalloc

BufIsZero(b, lo, n) == \A k \in DOMAIN b.nz : k < lo \/ k >= lo + n

RECURSIVE SumOver(_, _)
SumOver(fn, S) ==
    IF S = {} THEN 0
    ELSE LET x == CHOOSE y \in S : TRUE IN fn[x] + SumOver(fn, S \ {x})

\* ------------------------------------------------------------------- state
VARIABLES
    bUseTwoStreams,             \* NbnxmGpu::bUseTwoStreams
    bNonLocalStreamDoneMarked,  \* NbnxmGpu::bNonLocalStreamDoneMarked
    haveWork,                   \* NbnxmGpu::haveWork, per interaction locality
    plist,                      \* NbnxmGpu::plist, per interaction locality
    atdat,                      \* NbnxmGpu::atdat (NBAtomDataGpu) with its device buffers
    nbparam,                    \* NbnxmGpu::nbparam (the fields the handlers read)
    xbuf,                       \* atomIndices / cxy_na / cxy_ind sizes of NbnxmGpu
    nbst,                       \* NbnxmGpu::nbst, host staging of fShift / eLJ / eElec
    out_f,                      \* nbatom->out[0].f, the host force output
    deviceStreams,              \* per locality, the operations enqueued on its stream
    ordered,                    \* per locality, the operations a new operation is ordered after
    nonlocal_done,              \* NbnxmGpu::nonlocal_done
    misc_ops_and_local_H2D_done,\* NbnxmGpu::misc_ops_and_local_H2D_done
    step,                       \* MD step counter (0: before the first step)
    pc,                         \* position of the host in the step
    stepWork,                   \* gmx::StepWorkload of the current step
    isSearchStep,               \* the current step is a pair-search step
    simWork,                    \* run-level inputs: bonded GPU work, GPU x buffer ops
    stepAcc                     \* what the kernels of the current step accumulated

vars == <<bUseTwoStreams, bNonLocalStreamDoneMarked, haveWork, plist, atdat, nbparam,
          xbuf, nbst, out_f, deviceStreams, ordered, nonlocal_done,
          misc_ops_and_local_H2D_done, step, pc, stepWork, isSearchStep,
          simWork, stepAcc>>

\* ------------------------------------------------------- streams and events
\* The stream state the enqueue helpers thread through a handler.
DevState ==
    [q |-> deviceStreams, ordered |-> ordered, nonlocal_done |-> nonlocal_done,
     misc_ops_and_local_H2D_done |-> misc_ops_and_local_H2D_done,
     step |-> step]

SetDevState(D) ==
    /\ deviceStreams' = D.q
    /\ ordered' = D.ordered
    /\ nonlocal_done' = D.nonlocal_done
    /\ misc_ops_and_local_H2D_done' = D.misc_ops_and_local_H2D_done

UnmarkedEvent == [marked |-> FALSE, snap |-> {}]

\* An asynchronous operation appended to the in-order stream of loc: it is
\* ordered after everything the stream already is ordered after.  It is
\* identified by the step, the stream, the handler that enqueued it and what
\* it does (a handler enqueues each such operation once per step).
Enqueue(D, loc, by, kind, buf, lo, n) ==
    LET id == <<D.step, loc, by, kind, buf, lo>>
        op == [id |-> id, by |-> by, kind |-> kind, buf |-> buf, lo |-> lo, n |-> n,
               pred |-> D.ordered[loc]]
    IN [D EXCEPT !.q[loc] = Append(@, op),
                 !.ordered[loc] = @ \cup {id}]

\* GpuEventSynchronizer::markEvent(stream): the event completes when all work
\* enqueued so far on the stream has completed.
markEvent(D, ev, loc, by) ==
    LET D1 == Enqueue(D, loc, by, "mark", ev, 0, 0)
    IN [D1 EXCEPT ![ev] = [marked |-> TRUE, snap |-> D1.ordered[loc]]]

\* GpuEventSynchronizer::enqueueWaitEvent(stream): work enqueued later on the
\* stream starts after the marked event; the wait consumes the mark.  A wait
\* on an unmarked event orders nothing.
enqueueWaitEvent(D, ev, loc, by) ==
    LET D1 == [D EXCEPT !.ordered[loc] = @ \cup (IF D[ev].marked THEN D[ev].snap ELSE {})]
        D2 == Enqueue(D1, loc, by, "wait", ev, 0, 0)
    IN [D2 EXCEPT ![ev] = UnmarkedEvent]

\* GpuEventSynchronizer::reset()
resetEvent(D, ev) == [D EXCEPT ![ev] = UnmarkedEvent]

\* a happens-before b on the device
HappensBefore(a, b) == a.id \in b.pred

\* all operations in the log, of either stream
OpsOn(loc) == {deviceStreams[loc][i] : i \in 1..Len(deviceStreams[loc])}
AllOps == OpsOn(Local) \cup OpsOn(NonLocal)

\* ------------------------------------------------------------------ inputs
\* Host pair lists (NbnxnPairlistGpu) the list builder hands over.  A
\* super-cluster entry carries its periodic shift and, as the outcome of
\* evaluating it, one atom pair (ai, aj) with force f_ij and the energies the
\* block sums up.
SciEntry(shift, ai, aj, f_ij) ==
    [shift |-> shift, ai |-> ai, aj |-> aj, f_ij |-> f_ij, E_lj |-> 1, E_el |-> 2]

HostPairlist(sci) == [na_ci |-> c_clSize, sci |-> sci, cj4 |-> Len(sci), excl |-> 1]

HostPairlists(iloc) ==
    IF iloc = Local
    THEN {HostPairlist(<< >>),
          HostPairlist(<<SciEntry(c_centralShiftIndex, 0, 1, 1), SciEntry(0, 1, 0, 2)>>)}
    ELSE {HostPairlist(<< >>),
          HostPairlist(<<SciEntry(13, 2, 0, 3)>>)}

\* nbnxn_atomdata_t as seen by gpu_init_atomdata: numAtoms() and natoms_local
HostAtomdata == {[numAtoms |-> 3, natoms_local |-> 2]}

\* ---------------------------------------------------------- initialization
\* init_plist
init_plist ==
    [allocated |-> TRUE, na_c |-> -1,
     nsci |-> -1, sci_nalloc |-> -1, ncj4 |-> -1, cj4_nalloc |-> -1,
     nimask |-> -1, imask_nalloc |-> -1, nexcl |-> -1, excl_nalloc |-> -1,
     haveFreshList |-> FALSE, rollingPruningNumParts |-> 0, rollingPruningPart |-> 0,
     sci |-> << >>]

\* the plist slot of a locality gpu_init does not create
NoPlist == [init_plist EXCEPT !.allocated = FALSE]

\* initAtomdataFirst: allocates and clears the accumulators on the local stream
initAtomdataFirst ==
    [shiftVec |-> allocateDeviceBuffer(c_numShiftVectors),
     shiftVecUploaded |-> FALSE,
     fShift |-> clearDeviceBuffer(allocateDeviceBuffer(c_clShiftMemorySize * c_numShiftVectors),
                                  0, c_clShiftMemorySize * c_numShiftVectors),
     eLJ |-> clearDeviceBuffer(allocateDeviceBuffer(c_clEnergyMemorySize), 0, c_clEnergyMemorySize),
     eElec |-> clearDeviceBuffer(allocateDeviceBuffer(c_clEnergyMemorySize), 0, c_clEnergyMemorySize),
     xq |-> NullBuffer,
     f |-> NullBuffer,
     atomTypes |-> NullBuffer,
     ljComb |-> NullBuffer,
     numAtoms |-> -1,
     numAtomsLocal |-> 0,
     numAtomsAlloc |-> -1]

InitDevState ==
    LET D0 == [q |-> [l \in InteractionLocality |-> << >>],
               ordered |-> [l \in InteractionLocality |-> {}],
               nonlocal_done |-> UnmarkedEvent,
               misc_ops_and_local_H2D_done |-> UnmarkedEvent,
               step |-> 0]
        D1 == Enqueue(D0, Local, "gpu_init", "clear", "fShift", 0,
                      c_clShiftMemorySize * c_numShiftVectors)
        D2 == Enqueue(D1, Local, "gpu_init", "clear", "eElec", 0, c_clEnergyMemorySize)
    IN Enqueue(D2, Local, "gpu_init", "clear", "eLJ", 0, c_clEnergyMemorySize)

NoStepWork == [computeVirial |-> FALSE, computeEnergy |-> FALSE, useGpuFBufferOps |-> FALSE]
NoStepAcc == [fShift |-> EmptyFn, eLJ |-> 0, eElec |-> 0]

\* gpu_init: the state after construction
Init ==
    /\ bUseTwoStreams \in BOOLEAN
    /\ bNonLocalStreamDoneMarked = FALSE
    /\ haveWork = [l \in InteractionLocality |-> FALSE]
    /\ plist = [l \in InteractionLocality |->
                   IF l = Local \/ bUseTwoStreams THEN init_plist ELSE NoPlist]
    /\ atdat = initAtomdataFirst
    /\ nbparam = [vdwType |-> "Cut"]
    /\ xbuf = [atomIndicesSize |-> 0, atomIndicesSize_alloc |-> 0,
               ncxy_na |-> 0, ncxy_na_alloc |-> 0, ncxy_ind |-> 0, ncxy_ind_alloc |-> 0]
    /\ nbst = [fShift |-> EmptyFn, eLJ |-> 0, eElec |-> 0]
    /\ out_f = EmptyFn
    /\ deviceStreams = InitDevState.q
    /\ ordered = InitDevState.ordered
    /\ nonlocal_done = InitDevState.nonlocal_done
    /\ misc_ops_and_local_H2D_done = InitDevState.misc_ops_and_local_H2D_done
    /\ step = 0
    /\ pc = "begin"
    /\ stepWork = NoStepWork
    /\ isSearchStep = FALSE
    /\ simWork \in [haveInteractions : BOOLEAN, useGpuXBufferOps : BOOLEAN]
    /\ stepAcc = NoStepAcc

\* ----------------------------------------------------------------- helpers
\* getGpuAtomRange: local atoms first, non-local atoms after them
getGpuAtomRange(ad, iloc) ==
    IF iloc = Local
    THEN [begin |-> 0, size |-> ad.numAtomsLocal]
    ELSE [begin |-> ad.numAtomsLocal, size |-> ad.numAtoms - ad.numAtomsLocal]

\* useLjCombRule: the kernel takes per-atom LJ combination parameters
useLjCombRule(vdwType) == vdwType \in {"CutCombGeom", "CutCombLB"}

\* over-allocation policies of the buffer growth
over_alloc_small(n) == (119 * n) \div 100 + 8000
over_alloc_large(n) == (119 * n) \div 100 + 1000

\* reallocateDeviceBuffer on the sizes (size, capacity) of a buffer: grows,
\* over-allocating, only when the request exceeds the capacity
reallocCapacity(nalloc, numValues) ==
    IF numValues > nalloc THEN over_alloc_large(numValues) ELSE nalloc

\* the host program's position for an operation on a locality
PcOf(what, iloc) == what \o (IF iloc = Local THEN "L" ELSE "NL")

\* where the host continues after the local kernel launch
AfterLocalKernel ==
    IF bUseTwoStreams THEN (IF isSearchStep THEN "plistNL" ELSE "xqNL") ELSE "cpyL"

\* The log is a window: when a step starts, it keeps of the step that just
\* ended the zero-fills of the output buffers (the operations the work of the
\* new step has to be ordered against) and drops everything older.
InWindow(id, newStep) ==
    /\ id[1] = newStep - 1
    /\ id[4] = "clear"
    /\ id[3] \in {"gpu_clear_outputs", "gpu_init"}
PruneSeq(q, newStep) ==
    LET kept == SelectSeq(q, LAMBDA o : InWindow(o.id, newStep))
    IN [i \in 1..Len(kept) |->
           [kept[i] EXCEPT !.pred = {x \in @ : InWindow(x, newStep)}]]
PruneEvent(ev, newStep) == [ev EXCEPT !.snap = {x \in @ : InWindow(x, newStep)}]

\* ------------------------------------------------------------ step driver
\* The integrator starts a step: it fixes the step's workload flags and
\* whether the step is a pair-search step (the first one always is).
StartStep ==
    /\ pc = "begin"
    /\ step < MaxSteps
    /\ \E cv \in BOOLEAN, ce \in BOOLEAN, fbo \in BOOLEAN,
          ns \in (IF step = 0 THEN {TRUE} ELSE BOOLEAN) :
          /\ stepWork' = [computeVirial |-> cv, computeEnergy |-> ce, useGpuFBufferOps |-> fbo]
          /\ isSearchStep' = ns
          /\ pc' = IF ns THEN "atomdata" ELSE "xqL"
    /\ step' = step + 1
    /\ stepAcc' = NoStepAcc
    /\ deviceStreams' = [l \in InteractionLocality |-> PruneSeq(deviceStreams[l], step + 1)]
    /\ ordered' = [l \in InteractionLocality |-> {x \in ordered[l] : InWindow(x, step + 1)}]
    /\ nonlocal_done' = PruneEvent(nonlocal_done, step + 1)
    /\ misc_ops_and_local_H2D_done' = PruneEvent(misc_ops_and_local_H2D_done, step + 1)
    /\ UNCHANGED <<bUseTwoStreams, bNonLocalStreamDoneMarked, haveWork, plist, atdat,
                   nbparam, xbuf, nbst, out_f, simWork>>

\* -------------------------------------------------------- gpu_init_atomdata
\* mutant: every call reallocates
gpu_init_atomdata_realloced_always(ad, numAtoms) == TRUE
\* mutant: a call reallocates whenever the atom count changes
gpu_init_atomdata_realloced_onChange(ad, numAtoms) == numAtoms # ad.numAtoms
\* need to reallocate if we have to copy more atoms than the space available
gpu_init_atomdata_realloced(ad, numAtoms) == numAtoms > ad.numAtomsAlloc

\* mutant: the force buffer is cleared for the atoms only
gpu_init_atomdata_clearSize_numAtoms(ad) == ad.numAtoms
\* the range of the force buffer cleared after a reallocation
gpu_init_atomdata_clearSize(ad) == ad.numAtomsAlloc

\* mutant: no parameters are uploaded
gpu_init_atomdata_uploadSize_none(numAtoms) == 0
\* the number of per-atom parameters uploaded
gpu_init_atomdata_uploadSize(numAtoms) == numAtoms

gpu_init_atomdata_result(ad, vdwType, nbat, D) ==
    LET numAtoms == nbat.numAtoms
        realloced == gpu_init_atomdata_realloced(ad, numAtoms)
        numAlloc == over_alloc_small(numAtoms)
        ad1 == IF realloced
               THEN [ad EXCEPT !.f = allocateDeviceBuffer(numAlloc),
                               !.xq = allocateDeviceBuffer(numAlloc),
                               !.ljComb = IF useLjCombRule(vdwType)
                                          THEN allocateDeviceBuffer(numAlloc) ELSE @,
                               !.atomTypes = IF useLjCombRule(vdwType)
                                             THEN @ ELSE allocateDeviceBuffer(numAlloc),
                               !.numAtomsAlloc = numAlloc]
               ELSE ad
        ad2 == [ad1 EXCEPT !.numAtoms = numAtoms, !.numAtomsLocal = nbat.natoms_local]
        ad3 == IF realloced
               THEN [ad2 EXCEPT !.f = clearDeviceBuffer(@, 0, gpu_init_atomdata_clearSize(ad2))]
               ELSE ad2
        numUploaded == gpu_init_atomdata_uploadSize(numAtoms)
        ad4 == IF useLjCombRule(vdwType)
               THEN [ad3 EXCEPT !.ljComb = copyToDeviceBuffer(@, nbat, 0, numUploaded)]
               ELSE [ad3 EXCEPT !.atomTypes = copyToDeviceBuffer(@, nbat, 0, numUploaded)]
        D1 == IF realloced
              THEN Enqueue(D, Local, "gpu_init_atomdata", "clear", "f", 0,
                           gpu_init_atomdata_clearSize(ad2))
              ELSE D
        D2 == Enqueue(D1, Local, "gpu_init_atomdata", "H2D",
                      IF useLjCombRule(vdwType) THEN "ljComb" ELSE "atomTypes", 0,
                      numUploaded)
    IN [atdat |-> ad4, dev |-> D2]

gpu_init_atomdata ==
    /\ pc = "atomdata"
    /\ \E nbat \in HostAtomdata :
          LET r == gpu_init_atomdata_result(atdat, nbparam.vdwType, nbat, DevState)
          IN /\ atdat' = r.atdat
             /\ SetDevState(r.dev)
    /\ pc' = "xbufops"
    /\ UNCHANGED <<bUseTwoStreams, bNonLocalStreamDoneMarked, haveWork, plist, nbparam,
                   xbuf, nbst, out_f, step, stepWork, isSearchStep, simWork, stepAcc>>

\* mutant: the non-local stream does not wait for the local event
nbnxnInsertNonlocalGpuDependency_noWait(D, two, iloc, by) ==
    IF two /\ iloc = Local
    THEN markEvent(D, "misc_ops_and_local_H2D_done", Local, by)
    ELSE D

\* ------------------------------------------- nbnxnInsertNonlocalGpuDependency
\* mutant: the dependency is inserted with one stream too
nbnxnInsertNonlocalGpuDependency_anyMode(D, two, iloc, by) ==
    IF iloc = Local
    THEN markEvent(D, "misc_ops_and_local_H2D_done", Local, by)
    ELSE enqueueWaitEvent(D, "misc_ops_and_local_H2D_done", NonLocal, by)

nbnxnInsertNonlocalGpuDependency(D, two, iloc, by) ==
    IF two
    THEN IF iloc = Local
         THEN markEvent(D, "misc_ops_and_local_H2D_done", Local, by)
         ELSE enqueueWaitEvent(D, "misc_ops_and_local_H2D_done", NonLocal, by)
    ELSE D

\* ------------------------------------------------ nbnxn_gpu_init_x_to_nbat_x
\* the grid set of the step: column layout of each grid and the atom indices
GridSets == {[numColumnsMax |-> 2, numColumns |-> <<2>>, atomIndicesSize |-> 3]}

RECURSIVE init_x_to_nbat_x_grids(_, _, _)
init_x_to_nbat_x_grids(D, gridSet, g) ==
    IF g >= Len(gridSet.numColumns) THEN D
    ELSE LET by == "nbnxn_gpu_init_x_to_nbat_x"
             numColumns == gridSet.numColumns[g + 1]
             D1 == IF gridSet.atomIndicesSize > 0
                   THEN Enqueue(D, Local, by, "H2D", "atomIndices", 0, gridSet.atomIndicesSize)
                   ELSE D
             D2 == IF numColumns > 0
                   THEN Enqueue(Enqueue(D1, Local, by, "H2D", "cxy_na",
                                        gridSet.numColumnsMax * g, numColumns),
                                Local, by, "H2D", "cxy_ind",
                                gridSet.numColumnsMax * g, numColumns)
                   ELSE D1
         IN init_x_to_nbat_x_grids(D2, gridSet, g + 1)

nbnxn_gpu_init_x_to_nbat_x_dev(D, two, gridSet) ==
    LET by == "nbnxn_gpu_init_x_to_nbat_x"
        D1 == init_x_to_nbat_x_grids(D, gridSet, 0)
        D2 == nbnxnInsertNonlocalGpuDependency(D1, two, Local, by)
    IN nbnxnInsertNonlocalGpuDependency(D2, two, NonLocal, by)

nbnxn_gpu_init_x_to_nbat_x ==
    /\ pc = "xbufops"
    /\ simWork.useGpuXBufferOps
    /\ \E gridSet \in GridSets :
          LET n == gridSet.numColumnsMax * Len(gridSet.numColumns)
          IN /\ xbuf' = [atomIndicesSize |-> gridSet.atomIndicesSize,
                         atomIndicesSize_alloc |->
                             reallocCapacity(xbuf.atomIndicesSize_alloc, gridSet.atomIndicesSize),
                         ncxy_na |-> n,
                         ncxy_na_alloc |-> reallocCapacity(xbuf.ncxy_na_alloc, n),
                         ncxy_ind |-> n,
                         ncxy_ind_alloc |-> reallocCapacity(xbuf.ncxy_ind_alloc, n)]
             /\ SetDevState(nbnxn_gpu_init_x_to_nbat_x_dev(DevState, bUseTwoStreams, gridSet))
    /\ pc' = "plistL"
    /\ UNCHANGED <<bUseTwoStreams, bNonLocalStreamDoneMarked, haveWork, plist, atdat,
                   nbparam, nbst, out_f, step, stepWork, isSearchStep, simWork, stepAcc>>

\* runs without GPU x buffer operations do not initialize them
SkipXBufferOps ==
    /\ pc = "xbufops"
    /\ ~simWork.useGpuXBufferOps
    /\ pc' = "plistL"
    /\ UNCHANGED <<bUseTwoStreams, bNonLocalStreamDoneMarked, haveWork, plist, atdat,
                   nbparam, xbuf, nbst, out_f, deviceStreams, ordered, nonlocal_done,
                   misc_ops_and_local_H2D_done, step, stepWork, isSearchStep,
                   simWork, stepAcc>>

\* -------------------------------------------------------- gpu_init_pairlist
\* mutant: the list is not marked as fresh
gpu_init_pairlist_plist_stale(d, h) ==
    [d EXCEPT !.na_c = IF d.na_c < 0 THEN h.na_ci ELSE @,
              !.nsci = Len(h.sci),
              !.sci_nalloc = reallocCapacity(@, Len(h.sci)),
              !.sci = h.sci,
              !.ncj4 = h.cj4,
              !.cj4_nalloc = reallocCapacity(@, h.cj4),
              !.nimask = h.cj4 * c_nbnxnGpuClusterpairSplit,
              !.imask_nalloc = reallocCapacity(@, h.cj4 * c_nbnxnGpuClusterpairSplit),
              !.nexcl = h.excl,
              !.excl_nalloc = reallocCapacity(@, h.excl)]

gpu_init_pairlist_plist(d, h) ==
    [d EXCEPT !.na_c = IF d.na_c < 0 THEN h.na_ci ELSE @,
              !.nsci = Len(h.sci),
              !.sci_nalloc = reallocCapacity(@, Len(h.sci)),
              !.sci = h.sci,
              !.ncj4 = h.cj4,
              !.cj4_nalloc = reallocCapacity(@, h.cj4),
              !.nimask = h.cj4 * c_nbnxnGpuClusterpairSplit,
              !.imask_nalloc = reallocCapacity(@, h.cj4 * c_nbnxnGpuClusterpairSplit),
              !.nexcl = h.excl,
              !.excl_nalloc = reallocCapacity(@, h.excl),
              !.haveFreshList = TRUE]

gpu_init_pairlist_dev(D, h, iloc) ==
    LET by == "gpu_init_pairlist"
        D1 == Enqueue(D, iloc, by, "H2D", "sci", 0, Len(h.sci))
        D2 == Enqueue(D1, iloc, by, "H2D", "cj4", 0, h.cj4)
    IN Enqueue(D2, iloc, by, "H2D", "excl", 0, h.excl)

\* mutant: a changed atoms-per-cluster value is not detected
gpu_init_pairlist_incons_never(d, h) == FALSE
\* the #atoms per cell has changed: gmx_incons
gpu_init_pairlist_incons(d, h) == d.na_c >= 0 /\ d.na_c # h.na_ci

gpu_init_pairlist(iloc) ==
    /\ pc = PcOf("plist", iloc)
    /\ \E h \in HostPairlists(iloc) :
          IF gpu_init_pairlist_incons(plist[iloc], h)
          THEN \* gmx_incons: the #atoms per cell has changed
               /\ pc' = "fatal"
               /\ UNCHANGED <<plist, deviceStreams, ordered, nonlocal_done,
                              misc_ops_and_local_H2D_done>>
          ELSE /\ plist' = [plist EXCEPT ![iloc] = gpu_init_pairlist_plist(@, h)]
               /\ SetDevState(gpu_init_pairlist_dev(DevState, h, iloc))
               /\ pc' = PcOf("setup", iloc)
    /\ UNCHANGED <<bUseTwoStreams, bNonLocalStreamDoneMarked, haveWork, atdat, nbparam,
                   xbuf, nbst, out_f, step, stepWork, isSearchStep, simWork, stepAcc>>

\* --------------------------------------------------- setupGpuShortRangeWork
setupGpuShortRangeWork_haveWork(pl, haveInteractions) ==
    (pl.nsci # 0) \/ haveInteractions

setupGpuShortRangeWork(iloc) ==
    /\ pc = PcOf("setup", iloc)
    /\ haveWork' = [haveWork EXCEPT
                       ![iloc] = setupGpuShortRangeWork_haveWork(plist[iloc],
                                                                 simWork.haveInteractions)]
    /\ pc' = PcOf("xq", iloc)
    /\ UNCHANGED <<bUseTwoStreams, bNonLocalStreamDoneMarked, plist, atdat, nbparam,
                   xbuf, nbst, out_f, deviceStreams, ordered, nonlocal_done,
                   misc_ops_and_local_H2D_done, step, stepWork, isSearchStep,
                   simWork, stepAcc>>

\* haveGpuShortRangeWork
haveGpuShortRangeWork(iloc) == haveWork[iloc]

\* ------------------------------------------------------- gpu_copy_xq_to_gpu
\* mutant: the early return is missing
gpu_copy_xq_to_gpu_skips_never(iloc, work) == FALSE

\* the early return for a non-local locality without work
gpu_copy_xq_to_gpu_skips(iloc, work) == (iloc = NonLocal) /\ ~work

\* mutant: the early return does not release the local-dependency event
gpu_copy_xq_to_gpu_dev_noReset(D, two, ad, iloc, work) ==
    IF gpu_copy_xq_to_gpu_skips(iloc, work)
    THEN D
    ELSE LET atomsRange == getGpuAtomRange(ad, iloc)
             D1 == Enqueue(D, iloc, "gpu_copy_xq_to_gpu", "H2D", "xq",
                           atomsRange.begin, atomsRange.size)
         IN IF two
            THEN IF iloc = Local
                 THEN markEvent(D1, "misc_ops_and_local_H2D_done", Local, "gpu_copy_xq_to_gpu")
                 ELSE enqueueWaitEvent(D1, "misc_ops_and_local_H2D_done", NonLocal,
                                       "gpu_copy_xq_to_gpu")
            ELSE D1

gpu_copy_xq_to_gpu_dev(D, two, ad, iloc, work) ==
    IF gpu_copy_xq_to_gpu_skips(iloc, work)
    THEN resetEvent(D, "misc_ops_and_local_H2D_done")
    ELSE LET atomsRange == getGpuAtomRange(ad, iloc)
             D1 == Enqueue(D, iloc, "gpu_copy_xq_to_gpu", "H2D", "xq",
                           atomsRange.begin, atomsRange.size)
         IN nbnxnInsertNonlocalGpuDependency(D1, two, iloc, "gpu_copy_xq_to_gpu")

gpu_copy_xq_to_gpu(iloc) ==
    /\ pc = PcOf("xq", iloc)
    /\ plist' = IF gpu_copy_xq_to_gpu_skips(iloc, haveGpuShortRangeWork(iloc))
                THEN [plist EXCEPT ![iloc].haveFreshList = FALSE]
                ELSE plist
    /\ SetDevState(gpu_copy_xq_to_gpu_dev(DevState, bUseTwoStreams, atdat, iloc,
                                          haveGpuShortRangeWork(iloc)))
    /\ pc' = PcOf("kern", iloc)
    /\ UNCHANGED <<bUseTwoStreams, bNonLocalStreamDoneMarked, haveWork, atdat, nbparam,
                   xbuf, nbst, out_f, step, stepWork, isSearchStep, simWork, stepAcc>>

\* mutant: every block has a slot of its own
energy_index_base_perBlock(bidx) == 1 + bidx
\* ------------------------------------------------------------ force kernel
\* One thread block of nbnxn_kernel: block bidx evaluates super-cluster entry
\* e and adds its results to the global buffers A = [f, fShift, eLJ, eElec].
energy_index_base(bidx) == 1 + (bidx % c_clEnergyMemoryMultiplier)
shift_index_base(bidx) == c_numShiftVectors * (1 + (bidx % c_clShiftMemoryMultiplier))

nbnxn_kernel_block(A, bidx, e, bCalcFshiftArg, calcEnergies) ==
    LET \* j forces, then the reduced i forces
        f1 == atomicAdd(A.f, e.aj, e.f_ij)
        f2 == atomicAdd(f1, e.ai, -e.f_ij)
        \* skip central shifts when summing shift forces
        bCalcFshift == bCalcFshiftArg /\ e.shift # c_centralShiftIndex
        fshift_buf == -e.f_ij
    IN [f |-> f2,
        fShift |-> IF bCalcFshift
                   THEN atomicAdd(A.fShift, e.shift + shift_index_base(bidx), fshift_buf)
                   ELSE A.fShift,
        eLJ |-> IF calcEnergies
                THEN atomicAdd(A.eLJ, energy_index_base(bidx), e.E_lj) ELSE A.eLJ,
        eElec |-> IF calcEnergies
                  THEN atomicAdd(A.eElec, energy_index_base(bidx), e.E_el) ELSE A.eElec]

\* the whole grid: one block per super-cluster entry, bidx = 0 .. nsci - 1
RECURSIVE nbnxn_kernel(_, _, _, _, _)
nbnxn_kernel(A, sci, bidx, bCalcFshift, calcEnergies) ==
    IF bidx >= Len(sci) THEN A
    ELSE nbnxn_kernel(nbnxn_kernel_block(A, bidx, sci[bidx + 1], bCalcFshift, calcEnergies),
                      sci, bidx + 1, bCalcFshift, calcEnergies)

\* what a launch contributes, summed per shift index and per energy term
RECURSIVE KernelContribution(_, _, _, _, _)
KernelContribution(acc, sci, bidx, bCalcFshift, calcEnergies) ==
    IF bidx >= Len(sci) THEN acc
    ELSE LET e == sci[bidx + 1]
             fs == IF bCalcFshift /\ e.shift # c_centralShiftIndex
                   THEN atomicAdd([nalloc |-> c_numShiftVectors, nz |-> acc.fShift],
                                  e.shift, -e.f_ij).nz
                   ELSE acc.fShift
             acc1 == [fShift |-> fs,
                      eLJ |-> acc.eLJ + (IF calcEnergies THEN e.E_lj ELSE 0),
                      eElec |-> acc.eElec + (IF calcEnergies THEN e.E_el ELSE 0)]
         IN KernelContribution(acc1, sci, bidx + 1, bCalcFshift, calcEnergies)

\* gpu_launch_kernel: nothing is launched for an empty pair list; the energy
\* variant of the kernel is picked on energy steps, shift forces are summed on
\* virial steps; the first launch on a fresh list prunes it.
gpu_launch_kernel(iloc) ==
    /\ pc = PcOf("kern", iloc)
    /\ IF plist[iloc].nsci <= 0
       THEN /\ plist' = IF iloc = NonLocal
                        THEN [plist EXCEPT ![iloc].haveFreshList = FALSE] ELSE plist
            /\ UNCHANGED <<atdat, stepAcc, deviceStreams, ordered, nonlocal_done,
                           misc_ops_and_local_H2D_done>>
       ELSE LET A == nbnxn_kernel([f |-> atdat.f, fShift |-> atdat.fShift,
                                   eLJ |-> atdat.eLJ, eElec |-> atdat.eElec],
                                  plist[iloc].sci, 0,
                                  stepWork.computeVirial, stepWork.computeEnergy)
            IN /\ atdat' = [atdat EXCEPT !.f = A.f, !.fShift = A.fShift,
                                         !.eLJ = A.eLJ, !.eElec = A.eElec]
               /\ stepAcc' = KernelContribution(stepAcc, plist[iloc].sci, 0,
                                                stepWork.computeVirial, stepWork.computeEnergy)
               /\ plist' = [plist EXCEPT ![iloc].haveFreshList = FALSE]
               /\ SetDevState(Enqueue(DevState, iloc, "gpu_launch_kernel", "kernel",
                                      "f", 0, plist[iloc].nsci))
    /\ pc' = IF iloc = Local THEN AfterLocalKernel ELSE "cpyNL"
    /\ UNCHANGED <<bUseTwoStreams, bNonLocalStreamDoneMarked, haveWork, nbparam, xbuf,
                   nbst, out_f, step, stepWork, isSearchStep, simWork>>

\* ------------------------------------------------------- gpu_launch_cpyback
\* copyFromDeviceBuffer into a host array kept sparsely: [lo, lo + n) of the
\* host array takes the device values starting at index dlo
copyFromDeviceBuffer(host, hlo, b, dlo, n) ==
    LET kept == {k \in DOMAIN host : k < hlo \/ k >= hlo + n}
        got == {k \in hlo..(hlo + n - 1) : BufRead(b, dlo + (k - hlo)) # 0}
    IN [k \in kept \cup got |->
           IF k \in got THEN BufRead(b, dlo + (k - hlo)) ELSE host[k]]

\* don't launch non-local copy-back if there was no non-local work to do
gpu_launch_cpyback_skips(iloc, work) == (iloc = NonLocal) /\ ~work
\* mutant: the local copy-back does not wait for the non-local one
gpu_launch_cpyback_waits_never(iloc, marked) == FALSE
\* mutant: the local copy-back waits whether or not the event was marked
gpu_launch_cpyback_waits_unmarked(iloc, marked) == iloc = Local
\* with DD the local D2H transfer can only start after the non-local has been launched
gpu_launch_cpyback_waits(iloc, marked) == (iloc = Local) /\ marked
\* mutant: the force download ignores useGpuFBufferOps
gpu_launch_cpyback_copiesF_always(sw) == TRUE
\* DtoH f
gpu_launch_cpyback_copiesF(sw) == ~sw.useGpuFBufferOps
\* the atom range of the force download
gpu_launch_cpyback_range(ad, iloc) == getGpuAtomRange(ad, iloc)
\* mutant: the non-local copy-back does not record nonlocal_done
gpu_launch_cpyback_marks_never(iloc) == FALSE
\* mutant: either locality marks the event
gpu_launch_cpyback_marks_anyLocality(iloc) == TRUE
\* the nonlocal_done event is recorded after the non-local D2H
gpu_launch_cpyback_marks(iloc) == iloc = NonLocal
\* mutant: shift forces are downloaded for either locality
gpu_launch_cpyback_copiesFshift_anyLocality(iloc, sw) == sw.computeVirial
\* only transfer energies in the local stream; DtoH fshift when virial is needed
gpu_launch_cpyback_copiesFshift(iloc, sw) == (iloc = Local) /\ sw.computeVirial
\* DtoH energies
gpu_launch_cpyback_copiesEnergy(iloc, sw) == (iloc = Local) /\ sw.computeEnergy

gpu_launch_cpyback_dev(D, ad, sw, iloc, marked) ==
    LET by == "gpu_launch_cpyback"
        atomsRange == gpu_launch_cpyback_range(ad, iloc)
        D1 == IF gpu_launch_cpyback_waits(iloc, marked)
              THEN enqueueWaitEvent(D, "nonlocal_done", iloc, by) ELSE D
        D2 == IF gpu_launch_cpyback_copiesF(sw)
              THEN Enqueue(D1, iloc, by, "D2H", "f", atomsRange.begin, atomsRange.size)
              ELSE D1
        D3 == IF gpu_launch_cpyback_marks(iloc)
              THEN markEvent(D2, "nonlocal_done", iloc, by) ELSE D2
        D4 == IF gpu_launch_cpyback_copiesFshift(iloc, sw)
              THEN Enqueue(D3, iloc, by, "D2H", "fShift", 0, c_numShiftVectors) ELSE D3
    IN IF gpu_launch_cpyback_copiesEnergy(iloc, sw)
       THEN Enqueue(Enqueue(D4, iloc, by, "D2H", "eLJ", 0, 1), iloc, by, "D2H", "eElec", 0, 1)
       ELSE D4

gpu_launch_cpyback(iloc) ==
    /\ pc = PcOf("cpy", iloc)
    /\ IF gpu_launch_cpyback_skips(iloc, haveGpuShortRangeWork(iloc))
       THEN /\ bNonLocalStreamDoneMarked' = FALSE
            /\ UNCHANGED <<nbst, out_f, deviceStreams, ordered, nonlocal_done,
                           misc_ops_and_local_H2D_done>>
       ELSE LET atomsRange == gpu_launch_cpyback_range(atdat, iloc)
            IN /\ bNonLocalStreamDoneMarked' =
                      IF gpu_launch_cpyback_marks(iloc) THEN TRUE
                      ELSE IF gpu_launch_cpyback_waits(iloc, bNonLocalStreamDoneMarked)
                           THEN FALSE ELSE bNonLocalStreamDoneMarked
               /\ out_f' = IF gpu_launch_cpyback_copiesF(stepWork)
                           THEN copyFromDeviceBuffer(out_f, atomsRange.begin, atdat.f,
                                                     atomsRange.begin, atomsRange.size)
                           ELSE out_f
               /\ nbst' = [fShift |-> IF gpu_launch_cpyback_copiesFshift(iloc, stepWork)
                                      THEN copyFromDeviceBuffer(nbst.fShift, 0, atdat.fShift,
                                                                0, c_numShiftVectors)
                                      ELSE nbst.fShift,
                           eLJ |-> IF gpu_launch_cpyback_copiesEnergy(iloc, stepWork)
                                   THEN BufRead(atdat.eLJ, 0) ELSE nbst.eLJ,
                           eElec |-> IF gpu_launch_cpyback_copiesEnergy(iloc, stepWork)
                                     THEN BufRead(atdat.eElec, 0) ELSE nbst.eElec]
               /\ SetDevState(gpu_launch_cpyback_dev(DevState, atdat, stepWork, iloc,
                                                     bNonLocalStreamDoneMarked))
    /\ pc' = IF iloc = NonLocal THEN "cpyL" ELSE "clear"
    /\ UNCHANGED <<bUseTwoStreams, haveWork, plist, atdat, nbparam, xbuf, step,
                   stepWork, isSearchStep, simWork, stepAcc>>

\* -------------------------------------------------------- gpu_clear_outputs
\* clear shift force array and energies: the condition under which they are cleared
gpu_clear_outputs_clearsAccumulators(computeVirial) == computeVirial
\* the range of the force buffer that is cleared
gpu_clear_outputs_numForces(ad) == ad.numAtoms

gpu_clear_outputs_atdat(ad, computeVirial) ==
    LET ad1 == [ad EXCEPT !.f = clearDeviceBuffer(@, 0, gpu_clear_outputs_numForces(ad))]
    IN IF gpu_clear_outputs_clearsAccumulators(computeVirial)
       THEN [ad1 EXCEPT
                !.fShift = clearDeviceBuffer(@, 0, c_clShiftMemorySize * c_numShiftVectors),
                !.eLJ = clearDeviceBuffer(@, 0, c_clEnergyMemorySize),
                !.eElec = clearDeviceBuffer(@, 0, c_clEnergyMemorySize)]
       ELSE ad1

gpu_clear_outputs_dev(D, ad, computeVirial) ==
    LET by == "gpu_clear_outputs"
        D1 == Enqueue(D, Local, by, "clear", "f", 0, gpu_clear_outputs_numForces(ad))
    IN IF gpu_clear_outputs_clearsAccumulators(computeVirial)
       THEN Enqueue(Enqueue(Enqueue(D1, Local, by, "clear", "fShift", 0,
                                    c_clShiftMemorySize * c_numShiftVectors),
                            Local, by, "clear", "eLJ", 0, c_clEnergyMemorySize),
                    Local, by, "clear", "eElec", 0, c_clEnergyMemorySize)
       ELSE D1

\* the integrator clears the outputs at the end of the step, passing the
\* step's computeVirial flag
gpu_clear_outputs ==
    /\ pc = "clear"
    /\ atdat' = gpu_clear_outputs_atdat(atdat, stepWork.computeVirial)
    /\ SetDevState(gpu_clear_outputs_dev(DevState, atdat, stepWork.computeVirial))
    /\ pc' = "begin"
    /\ UNCHANGED <<bUseTwoStreams, bNonLocalStreamDoneMarked, haveWork, plist, nbparam,
                   xbuf, nbst, out_f, step, stepWork, isSearchStep, simWork, stepAcc>>

\* ------------------------------------------------------------ specification
Next ==
    \/ StartStep
    \/ gpu_init_atomdata
    \/ nbnxn_gpu_init_x_to_nbat_x
    \/ SkipXBufferOps
    \/ \E iloc \in InteractionLocality : gpu_init_pairlist(iloc)
    \/ \E iloc \in InteractionLocality : setupGpuShortRangeWork(iloc)
    \/ \E iloc \in InteractionLocality : gpu_copy_xq_to_gpu(iloc)
    \/ \E iloc \in InteractionLocality : gpu_launch_kernel(iloc)
    \/ \E iloc \in InteractionLocality : gpu_launch_cpyback(iloc)
    \/ gpu_clear_outputs

Spec == Init /\ [][Next]_vars

\* =========================================================================
\* The data-management interface on its own: after gpu_init the host may call
\* the handlers in any order, with any of the inputs below.  pc is the last
\* call with its arguments and its outcome, "returned" or "fatal"; the stream
\* log holds what the last call enqueued.

\* ---------------------------------------------------- interaction constants
\* the environment overrides nbnxn_gpu_pick_ewald_kernel_type reads with getenv
Envs == [GMX_GPU_NB_ANA_EWALD : BOOLEAN, GMX_GPU_NB_TAB_EWALD : BOOLEAN,
         GMX_GPU_NB_EWALD_TWINCUT : BOOLEAN]
NoEnv == [GMX_GPU_NB_ANA_EWALD |-> FALSE, GMX_GPU_NB_TAB_EWALD |-> FALSE,
          GMX_GPU_NB_EWALD_TWINCUT |-> FALSE]

\* interaction_const_t with Coulomb cutoff rc, Ewald coefficient beta and the
\* Ewald correction tables generated for them
InteractionConst(rc, beta, tableF) ==
    [vdwtype |-> "Cut", vdw_modifier |-> "PotShift", ljpme_comb_rule |-> "Geom",
     eeltype |-> "Pme",
     rcoulomb |-> rc, rvdw |-> 10, ewaldcoeff_q |-> beta, sh_ewald |-> beta + 1,
     epsfac |-> 138, reactionFieldCoefficient |-> 0, reactionFieldShift |-> 0,
     sh_lj_ewald |-> 0, ewaldcoeff_lj |-> 0, rvdw_switch |-> 0,
     dispersion_shift |-> [c2 |-> 0, c3 |-> 0, cpot |-> 1],
     repulsion_shift |-> [c2 |-> 0, c3 |-> 0, cpot |-> 2],
     vdw_switch |-> [c3 |-> 0, c4 |-> 0, c5 |-> 0],
     coulombEwaldTables |-> [scale |-> 100 * beta, tableF |-> tableF]]

\* the parameter sets of the run: the initial one and the one PME load
\* balancing switches to (longer Coulomb cutoff, smaller Ewald coefficient)
InitialInteractionConst == InteractionConst(10, 3, <<31, 32, 33>>)
InteractionConsts == {InitialInteractionConst, InteractionConst(12, 2, <<21, 22, 23, 24>>)}

\* PairlistParams
ListParams == [rlistOuter |-> 13, rlistInner |-> 11, useDynamicPruning |-> TRUE]

\* nbnxn_atomdata_t::Params: the LJ combination rule the atom data detected
LJCombinationRules == {"None", "Geometric"}
NbatParams(rule) == [numTypes |-> 2, ljCombinationRule |-> rule]

EEL_RF(eeltype) == eeltype \in {"RF", "GRF_NOTUSED", "RFZero"}
EEL_PME(eeltype) == eeltype \in {"Pme", "PmeSwitch", "PmeUser", "PmeUserSwitch", "P3mAD"}

\* ------------------------------------------------------------ kernel pickers
\* the build is the HIP one: tabulated Ewald is the default
c_useTabulatedEwaldDefault == TRUE

\* mutant: conflicting overrides are not rejected
nbnxn_gpu_pick_ewald_kernel_type_noConflict(ic, env) ==
    LET bUseAnalyticalEwald ==
            IF env.GMX_GPU_NB_ANA_EWALD THEN TRUE
            ELSE IF env.GMX_GPU_NB_TAB_EWALD THEN FALSE
            ELSE ~c_useTabulatedEwaldDefault
    IN IF ic.rcoulomb = ic.rvdw /\ ~env.GMX_GPU_NB_EWALD_TWINCUT
       THEN (IF bUseAnalyticalEwald THEN "EwaldAna" ELSE "EwaldTab")
       ELSE (IF bUseAnalyticalEwald THEN "EwaldAnaTwin" ELSE "EwaldTabTwin")

\* mutant: the twin cut-off override is not read
nbnxn_gpu_pick_ewald_kernel_type_noTwinOverride(ic, env) ==
    LET bUseAnalyticalEwald ==
            IF env.GMX_GPU_NB_ANA_EWALD THEN TRUE
            ELSE IF env.GMX_GPU_NB_TAB_EWALD THEN FALSE
            ELSE ~c_useTabulatedEwaldDefault
    IN IF env.GMX_GPU_NB_ANA_EWALD /\ env.GMX_GPU_NB_TAB_EWALD THEN "fatal"
       ELSE IF ic.rcoulomb = ic.rvdw
            THEN (IF bUseAnalyticalEwald THEN "EwaldAna" ELSE "EwaldTab")
            ELSE (IF bUseAnalyticalEwald THEN "EwaldAnaTwin" ELSE "EwaldTabTwin")

\* nbnxn_gpu_pick_ewald_kernel_type; "fatal" is gmx_incons
nbnxn_gpu_pick_ewald_kernel_type(ic, env) ==
    LET bTwinCut == ic.rcoulomb # ic.rvdw
        forceAnalyticalEwald == env.GMX_GPU_NB_ANA_EWALD
        forceTabulatedEwald == env.GMX_GPU_NB_TAB_EWALD
        forceTwinCutoffEwald == env.GMX_GPU_NB_EWALD_TWINCUT
        bUseAnalyticalEwald ==
            IF forceAnalyticalEwald THEN TRUE
            ELSE IF forceTabulatedEwald THEN FALSE
            ELSE ~c_useTabulatedEwaldDefault
    IN IF forceAnalyticalEwald /\ forceTabulatedEwald THEN "fatal"
       ELSE IF ~bTwinCut /\ ~forceTwinCutoffEwald
            THEN (IF bUseAnalyticalEwald THEN "EwaldAna" ELSE "EwaldTab")
            ELSE (IF bUseAnalyticalEwald THEN "EwaldAnaTwin" ELSE "EwaldTabTwin")

\* nbnxmGpuPickElectrostaticsKernelType; "throw" is InconsistentInputError
nbnxmGpuPickElectrostaticsKernelType(ic, env) ==
    IF ic.eeltype = "Cut" THEN "Cut"
    ELSE IF EEL_RF(ic.eeltype) THEN "RF"
    ELSE IF EEL_PME(ic.eeltype) \/ ic.eeltype = "Ewald"
         THEN nbnxn_gpu_pick_ewald_kernel_type(ic, env)
    ELSE "throw"

\* mutant: the combination rule is read with every modifier
nbnxmGpuPickVdwKernelType_ruleFirst(ic, ljCombinationRule) ==
    IF ic.vdwtype = "Cut"
    THEN CASE ljCombinationRule \notin {"None", "Geometric", "LorentzBerthelot"} -> "throw"
           [] ic.vdw_modifier = "ForceSwitch" -> "FSwitch"
           [] ic.vdw_modifier = "PotSwitch" -> "PSwitch"
           [] ic.vdw_modifier \in {"None", "PotShift"} ->
                  (CASE ljCombinationRule = "None" -> "Cut"
                     [] ljCombinationRule = "Geometric" -> "CutCombGeom"
                     [] OTHER -> "CutCombLB")
           [] OTHER -> "throw"
    ELSE IF ic.vdwtype = "Pme"
         THEN IF ic.ljpme_comb_rule = "Geom"
              THEN (IF ljCombinationRule = "Geometric" THEN "EwaldGeom" ELSE "fatal")
              ELSE (IF ljCombinationRule = "LorentzBerthelot" THEN "EwaldLB" ELSE "fatal")
    ELSE "throw"

\* mutant: the switch modifiers are mixed up
nbnxmGpuPickVdwKernelType_switchesSwapped(ic, ljCombinationRule) ==
    IF ic.vdwtype = "Cut"
    THEN CASE ic.vdw_modifier \in {"None", "PotShift"} ->
                  (CASE ljCombinationRule = "None" -> "Cut"
                     [] ljCombinationRule = "Geometric" -> "CutCombGeom"
                     [] ljCombinationRule = "LorentzBerthelot" -> "CutCombLB"
                     [] OTHER -> "throw")
           [] ic.vdw_modifier = "ForceSwitch" -> "PSwitch"
           [] ic.vdw_modifier = "PotSwitch" -> "FSwitch"
           [] OTHER -> "throw"
    ELSE IF ic.vdwtype = "Pme"
         THEN IF ic.ljpme_comb_rule = "Geom"
              THEN (IF ljCombinationRule = "Geometric" THEN "EwaldGeom" ELSE "fatal")
              ELSE (IF ljCombinationRule = "LorentzBerthelot" THEN "EwaldLB" ELSE "fatal")
    ELSE "throw"

\* nbnxmGpuPickVdwKernelType; "throw" is InconsistentInputError, "fatal" a
\* failed GMX_RELEASE_ASSERT
nbnxmGpuPickVdwKernelType(ic, ljCombinationRule) ==
    IF ic.vdwtype = "Cut"
    THEN CASE ic.vdw_modifier \in {"None", "PotShift"} ->
                  (CASE ljCombinationRule = "None" -> "Cut"
                     [] ljCombinationRule = "Geometric" -> "CutCombGeom"
                     [] ljCombinationRule = "LorentzBerthelot" -> "CutCombLB"
                     [] OTHER -> "throw")
           [] ic.vdw_modifier = "ForceSwitch" -> "FSwitch"
           [] ic.vdw_modifier = "PotSwitch" -> "PSwitch"
           [] OTHER -> "throw"
    ELSE IF ic.vdwtype = "Pme"
         THEN IF ic.ljpme_comb_rule = "Geom"
              THEN (IF ljCombinationRule = "Geometric" THEN "EwaldGeom" ELSE "fatal")
              ELSE (IF ljCombinationRule = "LorentzBerthelot" THEN "EwaldLB" ELSE "fatal")
    ELSE "throw"

\* --------------------------------------------------------- parameter block
\* set_cutoff_parameters
set_cutoff_parameters(nbp, ic, listParams) ==
    [nbp EXCEPT !.ewald_beta = ic.ewaldcoeff_q,
                !.sh_ewald = ic.sh_ewald,
                !.epsfac = ic.epsfac,
                !.two_k_rf = 2 * ic.reactionFieldCoefficient,
                !.c_rf = ic.reactionFieldShift,
                !.rvdw_sq = ic.rvdw * ic.rvdw,
                !.rcoulomb_sq = ic.rcoulomb * ic.rcoulomb,
                !.rlistOuter_sq = listParams.rlistOuter * listParams.rlistOuter,
                !.rlistInner_sq = listParams.rlistInner * listParams.rlistInner,
                !.useDynamicPruning = listParams.useDynamicPruning,
                !.sh_lj_ewald = ic.sh_lj_ewald,
                !.ewaldcoeff_lj = ic.ewaldcoeff_lj,
                !.rvdw_switch = ic.rvdw_switch,
                !.dispersion_shift = ic.dispersion_shift,
                !.repulsion_shift = ic.repulsion_shift,
                !.vdw_switch = ic.vdw_switch]

\* The lookup tables in device memory: nbp.tables maps the handle of every
\* table that is allocated to its contents; 0 is the null handle.
\* initParamLookupTable allocates a table and fills it with the host data.
initParamLookupTable(nbp, field, hostData) ==
    LET h == CHOOSE k \in 1..(Cardinality(DOMAIN nbp.tables) + 1) : k \notin DOMAIN nbp.tables
    IN [[nbp EXCEPT ![field] = h]
            EXCEPT !.tables = [k \in DOMAIN nbp.tables \cup {h} |->
                                  IF k = h THEN hostData ELSE nbp.tables[k]]]

\* destroyParamLookupTable frees the table of a handle
destroyParamLookupTable(nbp, field) ==
    [nbp EXCEPT !.tables = [k \in DOMAIN nbp.tables \ {nbp[field]} |-> nbp.tables[k]]]

\* mutant: the old table is not destroyed
init_ewald_coulomb_force_table_leaks(tables, nbp) ==
    initParamLookupTable([nbp EXCEPT !.coulomb_tab_scale = tables.scale],
                         "coulomb_tab", tables.tableF)

\* init_ewald_coulomb_force_table
init_ewald_coulomb_force_table(tables, nbp) ==
    LET nbp1 == IF nbp.coulomb_tab # 0
                THEN destroyParamLookupTable(nbp, "coulomb_tab") ELSE nbp
    IN initParamLookupTable([nbp1 EXCEPT !.coulomb_tab_scale = tables.scale],
                            "coulomb_tab", tables.tableF)

\* a default-constructed NBParamGpu
NewNBParamGpu ==
    [ewald_beta |-> 0, sh_ewald |-> 0, epsfac |-> 0, two_k_rf |-> 0, c_rf |-> 0,
     rvdw_sq |-> 0, rcoulomb_sq |-> 0, rlistOuter_sq |-> 0, rlistInner_sq |-> 0,
     useDynamicPruning |-> FALSE, sh_lj_ewald |-> 0, ewaldcoeff_lj |-> 0,
     rvdw_switch |-> 0,
     dispersion_shift |-> [c2 |-> 0, c3 |-> 0, cpot |-> 0],
     repulsion_shift |-> [c2 |-> 0, c3 |-> 0, cpot |-> 0],
     vdw_switch |-> [c3 |-> 0, c4 |-> 0, c5 |-> 0],
     vdwType |-> "Cut", elecType |-> "Cut",
     coulomb_tab |-> 0, coulomb_tab_scale |-> 0, nbfp |-> 0, nbfp_comb |-> 0,
     tables |-> EmptyFn]

\* initNbparam, for inputs the kernel pickers accept
initNbparam(ic, listParams, nbatParams, env) ==
    LET nbp1 == [set_cutoff_parameters(NewNBParamGpu, ic, listParams) EXCEPT
                    !.vdwType = nbnxmGpuPickVdwKernelType(ic, nbatParams.ljCombinationRule),
                    !.elecType = nbnxmGpuPickElectrostaticsKernelType(ic, env)]
        nbp2 == IF nbp1.elecType \in {"EwaldTab", "EwaldTabTwin"}
                THEN init_ewald_coulomb_force_table(ic.coulombEwaldTables, nbp1) ELSE nbp1
        nbp3 == IF ~useLjCombRule(nbp2.vdwType)
                THEN initParamLookupTable(nbp2, "nbfp", <<"nbfp", nbatParams.numTypes>>)
                ELSE nbp2
    IN IF ic.vdwtype = "Pme"
       THEN initParamLookupTable(nbp3, "nbfp_comb", <<"nbfp_comb", nbatParams.numTypes>>)
       ELSE nbp3

\* ------------------------------------------------------------------ inputs
\* the host pair lists of a locality, one of them built with another
\* atoms-per-cluster value
HostPairlistsAnyCluster(iloc) ==
    HostPairlists(iloc) \cup {[na_ci |-> c_clSize \div 2, sci |-> << >>, cj4 |-> 0, excl |-> 2]}

\* atom data of growing and shrinking atom counts: one fills the capacity
\* allocated for the smallest exactly, the largest one fits none of the
\* capacities allocated for the others
HostAtomdataAnyCount ==
    {[numAtoms |-> 3, natoms_local |-> 2],
     [numAtoms |-> 5, natoms_local |-> 3],
     [numAtoms |-> over_alloc_small(3), natoms_local |-> 3],
     [numAtoms |-> over_alloc_small(5) + 1, natoms_local |-> over_alloc_small(5)]}

\* the nonbonded_verlet_t handed to gpu_pme_loadbal_update_param: a null
\* pointer, an object that runs on the CPU, the object that owns the GPU data
NonbondedVerlets == {"null", "cpu", "gpu"}

\* ------------------------------------------------------------ construction
\* gpu_init with the initial parameter set
\* the environment overrides gpu_init may find: none, or the analytical Ewald
\* kernels forced, with which initNbparam generates no Coulomb table
EnvsOfInit == {NoEnv, [NoEnv EXCEPT !.GMX_GPU_NB_ANA_EWALD = TRUE]}

InitDataMgmt ==
    /\ bUseTwoStreams \in BOOLEAN
    /\ bNonLocalStreamDoneMarked = FALSE
    /\ haveWork = [l \in InteractionLocality |-> FALSE]
    /\ plist = [l \in InteractionLocality |->
                   IF l = Local \/ bUseTwoStreams THEN init_plist ELSE NoPlist]
    /\ atdat = initAtomdataFirst
    /\ \E rule \in LJCombinationRules, env \in EnvsOfInit :
          nbparam = initNbparam(InitialInteractionConst, ListParams, NbatParams(rule), env)
    /\ xbuf = [atomIndicesSize |-> 0, atomIndicesSize_alloc |-> 0,
               ncxy_na |-> 0, ncxy_na_alloc |-> 0, ncxy_ind |-> 0, ncxy_ind_alloc |-> 0]
    /\ nbst = [fShift |-> EmptyFn, eLJ |-> 0, eElec |-> 0]
    /\ out_f = EmptyFn
    /\ deviceStreams = InitDevState.q
    /\ ordered = InitDevState.ordered
    /\ nonlocal_done = InitDevState.nonlocal_done
    /\ misc_ops_and_local_H2D_done = InitDevState.misc_ops_and_local_H2D_done
    /\ step = 0
    /\ pc = [call |-> "gpu_init", outcome |-> "returned"]
    /\ stepWork = NoStepWork
    /\ isSearchStep = FALSE
    /\ simWork \in [haveInteractions : BOOLEAN, useGpuXBufferOps : {FALSE},
                    bDynamicBox : BOOLEAN]
    /\ stepAcc = NoStepAcc

\* the streams as a call finds them: the log starts empty for the call
CallDev ==
    [DevState EXCEPT !.q = [l \in InteractionLocality |-> << >>],
                     !.ordered = [l \in InteractionLocality |-> {}]]

\* a locality the handle has a pair list and a stream for
HasLocality(iloc) == plist[iloc].allocated

\* the handle gpu_init returned has not been passed to gpu_free
HandleIsLive == HasLocality(Local)

\* ------------------------------------------------------------------- calls
\* gpu_init_pairlist(nb, h_plist, iloc), for any host list
call_gpu_init_pairlist(iloc) ==
    /\ pc.outcome # "fatal"
    /\ HasLocality(iloc)
    /\ \E h \in HostPairlistsAnyCluster(iloc) :
          IF gpu_init_pairlist_incons(plist[iloc], h)
          THEN /\ pc' = [call |-> "gpu_init_pairlist", iloc |-> iloc, h_plist |-> h,
                           outcome |-> "fatal"]
               /\ UNCHANGED <<plist, deviceStreams, ordered, nonlocal_done,
                              misc_ops_and_local_H2D_done>>
          ELSE /\ plist' = [plist EXCEPT ![iloc] = gpu_init_pairlist_plist(@, h)]
               /\ SetDevState(gpu_init_pairlist_dev(CallDev, h, iloc))
               /\ pc' = [call |-> "gpu_init_pairlist", iloc |-> iloc, h_plist |-> h,
                           outcome |-> "returned"]
    /\ UNCHANGED <<bUseTwoStreams, bNonLocalStreamDoneMarked, haveWork, atdat, nbparam,
                   xbuf, nbst, out_f, step, stepWork, isSearchStep, simWork, stepAcc>>

\* setupGpuShortRangeWork(nb, listedForcesGpu, iLocality), at any time
call_setupGpuShortRangeWork(iloc) ==
    /\ pc.outcome # "fatal"
    /\ HasLocality(iloc)
    /\ haveWork' = [haveWork EXCEPT
                       ![iloc] = setupGpuShortRangeWork_haveWork(plist[iloc],
                                                                 simWork.haveInteractions)]
    /\ SetDevState(CallDev)
    /\ pc' = [call |-> "setupGpuShortRangeWork", iLocality |-> iloc,
                outcome |-> "returned"]
    /\ UNCHANGED <<bUseTwoStreams, bNonLocalStreamDoneMarked, plist, atdat, nbparam,
                   xbuf, nbst, out_f, step, stepWork, isSearchStep, simWork, stepAcc>>

\* gpu_init_atomdata(nb, nbat), for any atom count
call_gpu_init_atomdata ==
    /\ pc.outcome # "fatal"
    /\ HandleIsLive
    /\ \E nbat \in HostAtomdataAnyCount :
          LET r == gpu_init_atomdata_result(atdat, nbparam.vdwType, nbat, CallDev)
          IN /\ atdat' = r.atdat
             /\ SetDevState(r.dev)
             /\ pc' = [call |-> "gpu_init_atomdata", nbat |-> nbat, outcome |-> "returned"]
    /\ UNCHANGED <<bUseTwoStreams, bNonLocalStreamDoneMarked, haveWork, plist, nbparam,
                   xbuf, nbst, out_f, step, stepWork, isSearchStep, simWork, stepAcc>>

\* mutant: the shift vectors are uploaded by every call
gpu_upload_shiftvec_uploads_always(bDynamicBox, ad) == TRUE
\* only if we have a dynamic box, or no upload yet
gpu_upload_shiftvec_uploads(bDynamicBox, ad) == bDynamicBox \/ ~ad.shiftVecUploaded

gpu_upload_shiftvec_atdat(ad, bDynamicBox) ==
    IF gpu_upload_shiftvec_uploads(bDynamicBox, ad)
    THEN [ad EXCEPT !.shiftVec = copyToDeviceBuffer(@, "shift_vec", 0, c_numShiftVectors),
                    !.shiftVecUploaded = TRUE]
    ELSE ad

gpu_upload_shiftvec_dev(D, ad, bDynamicBox) ==
    IF gpu_upload_shiftvec_uploads(bDynamicBox, ad)
    THEN Enqueue(D, Local, "gpu_upload_shiftvec", "H2D", "shiftVec", 0, c_numShiftVectors)
    ELSE D

\* gpu_upload_shiftvec(nb, nbatom)
gpu_upload_shiftvec ==
    /\ pc.outcome # "fatal"
    /\ HandleIsLive
    /\ atdat' = gpu_upload_shiftvec_atdat(atdat, simWork.bDynamicBox)
    /\ SetDevState(gpu_upload_shiftvec_dev(CallDev, atdat, simWork.bDynamicBox))
    /\ pc' = [call |-> "gpu_upload_shiftvec", bDynamicBox |-> simWork.bDynamicBox,
                outcome |-> "returned"]
    /\ UNCHANGED <<bUseTwoStreams, bNonLocalStreamDoneMarked, haveWork, plist, nbparam,
                   xbuf, nbst, out_f, step, stepWork, isSearchStep, simWork, stepAcc>>

\* mutant: the update also runs without a GPU object
gpu_pme_loadbal_update_param_skips_never(nbv) == FALSE
\* if (!nbv || !nbv->useGpu()) return
gpu_pme_loadbal_update_param_skips(nbv) == nbv = "null" \/ nbv = "cpu"

\* the parameter block after the update
gpu_pme_loadbal_update_param_nbparam(nbp, ic, listParams, env) ==
    LET nbp1 == [set_cutoff_parameters(nbp, ic, listParams) EXCEPT
                    !.elecType = nbnxn_gpu_pick_ewald_kernel_type(ic, env)]
    IN init_ewald_coulomb_force_table(ic.coulombEwaldTables, nbp1)

\* the environment overrides a run may have set
EnvsOfRun ==
    {NoEnv,
     [NoEnv EXCEPT !.GMX_GPU_NB_ANA_EWALD = TRUE],
     [NoEnv EXCEPT !.GMX_GPU_NB_ANA_EWALD = TRUE, !.GMX_GPU_NB_TAB_EWALD = TRUE]}

\* gpu_pme_loadbal_update_param(nbv, ic)
gpu_pme_loadbal_update_param ==
    /\ pc.outcome # "fatal"
    /\ HandleIsLive
    /\ \E nbv \in NonbondedVerlets, ic \in InteractionConsts, env \in EnvsOfRun :
          IF gpu_pme_loadbal_update_param_skips(nbv)
          THEN /\ pc' = [call |-> "gpu_pme_loadbal_update_param", nbv |-> nbv, ic |-> ic,
                         outcome |-> "returned"]
               /\ UNCHANGED nbparam
          ELSE IF nbnxn_gpu_pick_ewald_kernel_type(ic, env) = "fatal"
               THEN \* gmx_incons, after set_cutoff_parameters
                    /\ pc' = [call |-> "gpu_pme_loadbal_update_param", nbv |-> nbv,
                              ic |-> ic, outcome |-> "fatal"]
                    /\ nbparam' = set_cutoff_parameters(nbparam, ic, ListParams)
               ELSE /\ pc' = [call |-> "gpu_pme_loadbal_update_param", nbv |-> nbv,
                              ic |-> ic, outcome |-> "returned"]
                    /\ nbparam' = gpu_pme_loadbal_update_param_nbparam(nbparam, ic,
                                                                       ListParams, env)
    /\ SetDevState(CallDev)
    /\ UNCHANGED <<bUseTwoStreams, bNonLocalStreamDoneMarked, haveWork, plist, atdat,
                   xbuf, nbst, out_f, step, stepWork, isSearchStep, simWork, stepAcc>>

\* ------------------------------------------------ gpu_init and the pickers
\* the settings a run may ask for: the values the kernels know and, of every
\* enumeration, one they do not
VanDerWaalsTypes == {"Cut", "Pme", "Switch"}
InteractionModifiersOfRun == {"None", "PotShift", "ForceSwitch", "PotSwitch", "ExactCutoff"}
LongRangeVdWs == {"Geom", "LB"}
LJCombinationRulesOfRun == {"None", "Geometric", "LorentzBerthelot", "Count"}
CoulombInteractionTypes == {"Cut", "RF", "Pme", "Ewald", "User"}
CoulombCutoffs == {InitialInteractionConst.rvdw, InitialInteractionConst.rvdw + 2}

\* the interaction constants of a run's settings
InteractionConstOf(rc, vdwtype, modifier, lr, eeltype) ==
    [InteractionConst(rc, 3, <<31, 32, 33>>) EXCEPT
        !.vdwtype = vdwtype, !.vdw_modifier = modifier, !.ljpme_comb_rule = lr,
        !.eeltype = eeltype]

\* what a picker gave: a kernel type, or how it ended
PickerFailed(r) == r \in {"throw", "fatal"}

\* the state before gpu_init: no handle, nothing allocated
NoAtomdata ==
    [initAtomdataFirst EXCEPT !.shiftVec = NullBuffer, !.fShift = NullBuffer,
                              !.eLJ = NullBuffer, !.eElec = NullBuffer]
InitNoHandle ==
    /\ bUseTwoStreams = FALSE
    /\ bNonLocalStreamDoneMarked = FALSE
    /\ haveWork = [l \in InteractionLocality |-> FALSE]
    /\ plist = [l \in InteractionLocality |-> NoPlist]
    /\ atdat = NoAtomdata
    /\ nbparam = NewNBParamGpu
    /\ xbuf = [atomIndicesSize |-> 0, atomIndicesSize_alloc |-> 0,
               ncxy_na |-> 0, ncxy_na_alloc |-> 0, ncxy_ind |-> 0, ncxy_ind_alloc |-> 0]
    /\ nbst = EmptyFn
    /\ out_f = EmptyFn
    /\ deviceStreams = [l \in InteractionLocality |-> << >>]
    /\ ordered = InitDevState.ordered
    /\ nonlocal_done = InitDevState.nonlocal_done
    /\ misc_ops_and_local_H2D_done = InitDevState.misc_ops_and_local_H2D_done
    /\ step = 0
    /\ pc = [call |-> "none", outcome |-> "returned"]
    /\ stepWork = NoStepWork
    /\ isSearchStep = FALSE
    /\ simWork = [haveInteractions |-> FALSE, useGpuXBufferOps |-> FALSE,
                  bDynamicBox |-> FALSE]
    /\ stepAcc = NoStepAcc

\* how gpu_init ends: initNbparam calls the VdW picker, then the
\* electrostatics picker
gpu_init_outcome(ic, ljCombinationRule, env) ==
    LET vdwType == nbnxmGpuPickVdwKernelType(ic, ljCombinationRule)
        elecType == nbnxmGpuPickElectrostaticsKernelType(ic, env)
    IN IF PickerFailed(vdwType) THEN vdwType
       ELSE IF PickerFailed(elecType) THEN elecType
       ELSE "returned"

\* the parameter block initNbparam leaves when a picker fails
gpu_init_nbparam_failed(ic, ljCombinationRule) ==
    LET nbp == set_cutoff_parameters(NewNBParamGpu, ic, ListParams)
        vdwType == nbnxmGpuPickVdwKernelType(ic, ljCombinationRule)
    IN IF PickerFailed(vdwType) THEN nbp ELSE [nbp EXCEPT !.vdwType = vdwType]

\* gpu_init(deviceStreamManager, ic, listParams, nbat, bLocalAndNonlocal)
gpu_init ==
    /\ pc.call = "none"
    /\ ~HandleIsLive
    /\ \E rc \in CoulombCutoffs, vdwtype \in VanDerWaalsTypes,
          modifier \in InteractionModifiersOfRun, lr \in LongRangeVdWs,
          eeltype \in CoulombInteractionTypes, rule \in LJCombinationRulesOfRun,
          env \in Envs, bLocalAndNonlocal \in BOOLEAN :
          LET ic == InteractionConstOf(rc, vdwtype, modifier, lr, eeltype)
              outcome == gpu_init_outcome(ic, rule, env)
          IN /\ pc' = [call |-> "gpu_init", ic |-> ic, ljCombinationRule |-> rule,
                       env |-> env, outcome |-> outcome]
             /\ bUseTwoStreams' = bLocalAndNonlocal
             /\ plist' = [l \in InteractionLocality |->
                             IF l = Local \/ bLocalAndNonlocal
                             THEN init_plist ELSE NoPlist]
             /\ nbst' = [fShift |-> EmptyFn, eLJ |-> 0, eElec |-> 0]
             /\ IF outcome = "returned"
                THEN /\ nbparam' = initNbparam(ic, ListParams, NbatParams(rule), env)
                     /\ atdat' = initAtomdataFirst
                     /\ deviceStreams' = InitDevState.q
                ELSE \* the error leaves what was set up before initNbparam
                     \* picked the types; no handle is returned
                     /\ nbparam' = gpu_init_nbparam_failed(ic, rule)
                     /\ UNCHANGED <<atdat, deviceStreams>>
    /\ UNCHANGED <<bNonLocalStreamDoneMarked, haveWork, xbuf, out_f, ordered,
                   nonlocal_done, misc_ops_and_local_H2D_done, step, stepWork,
                   isSearchStep, simWork, stepAcc>>

\* a call of one of the pickers on its own: what it was called with and
\* what it gave
PickerCall(call, ic, arg, result) ==
    [call |-> call, ic |-> ic, arg |-> arg, result |-> result,
     outcome |-> IF PickerFailed(result) THEN result ELSE "returned"]

call_nbnxn_gpu_pick_ewald_kernel_type ==
    /\ pc.outcome = "returned"
    /\ ~HandleIsLive
    /\ \E rc \in CoulombCutoffs, env \in Envs :
          LET ic == InteractionConstOf(rc, "Cut", "PotShift", "Geom", "Pme")
          IN pc' = PickerCall("nbnxn_gpu_pick_ewald_kernel_type", ic, env,
                              nbnxn_gpu_pick_ewald_kernel_type(ic, env))
    /\ UNCHANGED <<bUseTwoStreams, bNonLocalStreamDoneMarked, haveWork, plist, atdat,
                   nbparam, xbuf, nbst, out_f, deviceStreams, ordered, nonlocal_done,
                   misc_ops_and_local_H2D_done, step, stepWork, isSearchStep, simWork,
                   stepAcc>>

call_nbnxmGpuPickElectrostaticsKernelType ==
    /\ pc.outcome = "returned"
    /\ ~HandleIsLive
    /\ \E rc \in CoulombCutoffs, eeltype \in CoulombInteractionTypes, env \in Envs :
          LET ic == InteractionConstOf(rc, "Cut", "PotShift", "Geom", eeltype)
          IN pc' = PickerCall("nbnxmGpuPickElectrostaticsKernelType", ic, env,
                              nbnxmGpuPickElectrostaticsKernelType(ic, env))
    /\ UNCHANGED <<bUseTwoStreams, bNonLocalStreamDoneMarked, haveWork, plist, atdat,
                   nbparam, xbuf, nbst, out_f, deviceStreams, ordered, nonlocal_done,
                   misc_ops_and_local_H2D_done, step, stepWork, isSearchStep, simWork,
                   stepAcc>>

call_nbnxmGpuPickVdwKernelType ==
    /\ pc.outcome = "returned"
    /\ ~HandleIsLive
    /\ \E vdwtype \in VanDerWaalsTypes, modifier \in InteractionModifiersOfRun,
          lr \in LongRangeVdWs, rule \in LJCombinationRulesOfRun :
          LET ic == InteractionConstOf(InitialInteractionConst.rvdw, vdwtype, modifier,
                                       lr, "Pme")
          IN pc' = PickerCall("nbnxmGpuPickVdwKernelType", ic, rule,
                              nbnxmGpuPickVdwKernelType(ic, rule))
    /\ UNCHANGED <<bUseTwoStreams, bNonLocalStreamDoneMarked, haveWork, plist, atdat,
                   nbparam, xbuf, nbst, out_f, deviceStreams, ordered, nonlocal_done,
                   misc_ops_and_local_H2D_done, step, stepWork, isSearchStep, simWork,
                   stepAcc>>

\* ----------------------------------------------------------------- gpu_free
\* the handles gpu_free may be called with
NbnxmGpus == {"null", "nb"}

\* mutant: the null test is missing
gpu_free_skips_never(nb) == FALSE
\* if (nb == nullptr) return
gpu_free_skips(nb) == nb = "null"

\* freeDeviceBuffer
freeDeviceBuffer(b) == NullBuffer

\* mutant: the atom types are released whatever the kernel type
gpu_free_atdat_atomTypes(ad, vdwType) ==
    [ad EXCEPT !.xq = freeDeviceBuffer(@),
               !.f = freeDeviceBuffer(@),
               !.eLJ = freeDeviceBuffer(@),
               !.eElec = freeDeviceBuffer(@),
               !.fShift = freeDeviceBuffer(@),
               !.shiftVec = freeDeviceBuffer(@),
               !.atomTypes = freeDeviceBuffer(@)]
\* Free atdat
gpu_free_atdat(ad, vdwType) ==
    LET ad1 == [ad EXCEPT !.xq = freeDeviceBuffer(@),
                          !.f = freeDeviceBuffer(@),
                          !.eLJ = freeDeviceBuffer(@),
                          !.eElec = freeDeviceBuffer(@),
                          !.fShift = freeDeviceBuffer(@),
                          !.shiftVec = freeDeviceBuffer(@)]
    IN IF useLjCombRule(vdwType)
       THEN [ad1 EXCEPT !.ljComb = freeDeviceBuffer(@)]
       ELSE [ad1 EXCEPT !.atomTypes = freeDeviceBuffer(@)]

\* Free nbparam
gpu_free_nbparam(nbp) ==
    LET nbp1 == IF nbp.elecType \in {"EwaldTab", "EwaldTabTwin"}
                THEN destroyParamLookupTable(nbp, "coulomb_tab") ELSE nbp
        nbp2 == IF ~useLjCombRule(nbp.vdwType)
                THEN destroyParamLookupTable(nbp1, "nbfp") ELSE nbp1
    IN IF nbp.vdwType \in {"EwaldGeom", "EwaldLB"}
       THEN destroyParamLookupTable(nbp2, "nbfp_comb") ELSE nbp2

\* Free plist: the device buffers of a list and the list
gpu_free_plist(pl) ==
    [pl EXCEPT !.allocated = FALSE,
               !.sci_nalloc = -1, !.cj4_nalloc = -1, !.imask_nalloc = -1,
               !.excl_nalloc = -1]

\* Free nbst: nbst maps the staging arrays that are allocated to their contents
gpu_free_nbst(st) == [b \in DOMAIN st \ {"eLJ", "eElec", "fShift"} |-> st[b]]

\* gpu_free(nb)
gpu_free ==
    /\ pc.outcome # "fatal"
    /\ \E nb \in NbnxmGpus :
          /\ pc' = [call |-> "gpu_free", nb |-> nb, outcome |-> "returned"]
          /\ IF gpu_free_skips(nb)
             THEN UNCHANGED <<atdat, nbparam, plist, nbst>>
             ELSE /\ HandleIsLive
                  /\ atdat' = gpu_free_atdat(atdat, nbparam.vdwType)
                  /\ nbparam' = gpu_free_nbparam(nbparam)
                  /\ plist' = [l \in InteractionLocality |->
                                  IF l = Local \/ bUseTwoStreams
                                  THEN gpu_free_plist(plist[l]) ELSE plist[l]]
                  /\ nbst' = gpu_free_nbst(nbst)
    /\ SetDevState(CallDev)
    /\ UNCHANGED <<bUseTwoStreams, bNonLocalStreamDoneMarked, haveWork, xbuf, out_f,
                   step, stepWork, isSearchStep, simWork, stepAcc>>


\* Three specifications of the interface, one per concern; each fixes the
\* run-level inputs its handlers do not read.

\* the pair lists and the cached work flags
InitPairlist ==
    /\ InitDataMgmt
    /\ ~simWork.bDynamicBox
    /\ nbparam.vdwType = "Cut"
    /\ nbparam.elecType = "EwaldTab"
NextPairlist ==
    \/ \E iloc \in InteractionLocality : call_gpu_init_pairlist(iloc)
    \/ \E iloc \in InteractionLocality : call_setupGpuShortRangeWork(iloc)
SpecPairlist == InitPairlist /\ [][NextPairlist]_vars

\* the atom data
InitAtomdata ==
    /\ InitDataMgmt
    /\ ~simWork.haveInteractions
    /\ nbparam.elecType = "EwaldTab"
NextAtomdata ==
    \/ call_gpu_init_atomdata
    \/ gpu_upload_shiftvec
SpecAtomdata == InitAtomdata /\ [][NextAtomdata]_vars

\* the parameter block, next to the pair lists and the atom data
InitParams ==
    /\ InitDataMgmt
    /\ ~simWork.haveInteractions
    /\ ~simWork.bDynamicBox
NextParams ==
    \/ gpu_pme_loadbal_update_param
    \/ \E iloc \in InteractionLocality : call_gpu_init_pairlist(iloc)
    \/ call_gpu_init_atomdata
SpecParams == InitParams /\ [][NextParams]_vars

\* the life of a handle, from gpu_init to gpu_free
InitFree ==
    /\ InitDataMgmt
    /\ ~simWork.haveInteractions
    /\ ~simWork.bDynamicBox
NextFree ==
    \/ gpu_pme_loadbal_update_param
    \/ \E iloc \in InteractionLocality : call_gpu_init_pairlist(iloc)
    \/ call_gpu_init_atomdata
    \/ gpu_free
SpecFree == InitFree /\ [][NextFree]_vars

\* the selection of the kernel types, in gpu_init and by each picker
NextPickers ==
    \/ gpu_init
    \/ call_nbnxn_gpu_pick_ewald_kernel_type
    \/ call_nbnxmGpuPickElectrostaticsKernelType
    \/ call_nbnxmGpuPickVdwKernelType
SpecPickers == InitNoHandle /\ [][NextPickers]_vars

\* ------------------------------------------- the kernel, thread by thread
\* nbnxn_kernel of nbnxm_hip_kernel.hpp, evaluated for every thread of a
\* block.  Atoms sit at integer coordinates on a line, so that the distance of
\* two atoms is an integer; charges, LJ parameters, cut-offs and the radial
\* functions the kernel calls take integer values.  A bit mask is kept as the
\* set of the positions of its set bits, an exclusion word as the set of the
\* positions of its clear bits.

\* clusters per super-cluster, j clusters per cj4 group
c_nbnxnGpuNumClusterPerSupercluster == 8
c_nbnxnGpuJgroupSize == 4
\* warp pairs per block
NTHREAD_Z == 1
\* the floor of a squared distance: the smallest one two atoms can be apart
c_nbnxnMinDistanceSquared == 1
\* 1/r is kept in units of 1/InvRUnit
InvRUnit == 2

\* threadIdx.x and threadIdx.y of the threads of a block
ThreadIdx == 0..(c_clSize - 1)
\* the bits of an interaction mask or exclusion word: jm * 8 + i
MaskBit(jm, i) == jm * c_nbnxnGpuNumClusterPerSupercluster + i

\* The macros a kernel flavor is compiled with.  The kernel types of nbparam
\* select EL_*, VDW_CUTOFF_CHECK and LJ_*, the launch selects CALC_ENERGIES and
\* PRUNE_NBL.  The force-switch, potential-switch and LJ-PME flavors, whose
\* arithmetic is in functions of the kernel utilities, are not part of the
\* model.
KernelFlavor(nbp, calcEnergies, prune) ==
    [EL |-> CASE nbp.elecType = "Cut" -> "EL_CUTOFF"
              [] nbp.elecType = "RF" -> "EL_RF"
              [] nbp.elecType \in {"EwaldAna", "EwaldAnaTwin"} -> "EL_EWALD_ANA"
              [] OTHER -> "EL_EWALD_TAB",
     VDW_CUTOFF_CHECK |-> nbp.elecType \in {"EwaldAnaTwin", "EwaldTabTwin"},
     LJ |-> CASE nbp.vdwType = "CutCombGeom" -> "LJ_COMB_GEOM"
              [] nbp.vdwType = "CutCombLB" -> "LJ_COMB_LB"
              [] OTHER -> "LJ",
     CALC_ENERGIES |-> calcEnergies,
     PRUNE_NBL |-> prune]

EL_EWALD_ANY(v) == v.EL \in {"EL_EWALD_ANA", "EL_EWALD_TAB"}

\* the macro that controls the calculation of exclusion forces
EXCLUSION_FORCES(v) ==
    EL_EWALD_ANY(v) \/ v.EL = "EL_RF" \/ (v.EL = "EL_CUTOFF" /\ v.CALC_ENERGIES)

\* --------------------------------------------- functions the kernel calls
\* __frsqrt_rn on the squared distances of the model
frsqrt(r2) == InvRUnit \div (CHOOSE r \in 1..r2 : r * r <= r2 /\ (r + 1) * (r + 1) > r2)
\* pmecorrF: the analytical Ewald correction, negative and growing with z2
pmecorrF(z2) == -(1 + z2)
\* erff
erff(z) == IF z > 0 THEN 1 ELSE 0
\* interpolate_coulomb_force_r: the entry of the Coulomb table at r
interpolate_coulomb_force_r(nbp, r) ==
    nbp.tables[nbp.coulomb_tab][r * nbp.coulomb_tab_scale + 1]
\* the LJ parameter matrix nbat->params().nbfp initNbparam uploads: 6*C6 and
\* 12*C12 per pair of atom types; type 0 is the type of the filler atoms
AtomTypes == {0, 1}
ntypes == Cardinality(AtomTypes)
HostNbfp == <<[x |-> 0, y |-> 0], [x |-> 0, y |-> 0],
              [x |-> 0, y |-> 0], [x |-> 6, y |-> 12]>>
fetch_nbfp_c6_c12(nbp, index) == HostNbfp[index + 1]
convert_sigma_epsilon_to_c6_c12(sigma, epsilon) ==
    LET sigma2 == sigma * sigma
        sigma6 == sigma2 * sigma2 * sigma2
        c6 == epsilon * sigma6
    IN [x |-> c6, y |-> c6 * sigma6]

\* ------------------------------------------------------- one pair of atoms
\* mutant: the cut-off check admits a pair on the cut-off
nbnxn_kernel_withinCutoff_inclusive(r2, rcoulomb_sq) == r2 <= rcoulomb_sq
\* r2 < rcoulomb_sq
nbnxn_kernel_withinCutoff(r2, rcoulomb_sq) == r2 < rcoulomb_sq

\* mutant: the excluded pairs are not masked out of the LJ force
nbnxn_kernel_maskLJ_never(v, int_bit) == 1
\* the factor inv_r6 and sig_r6 are multiplied with
nbnxn_kernel_maskLJ(v, int_bit) == IF EXCLUSION_FORCES(v) THEN int_bit ELSE 1

\* The body of the loop over the i clusters for one thread.  xqi is the
\* preloaded i atom (x negated and shifted, w = q * epsfac), xqj the j atom,
\* lji and ljj their atom types or LJ combination parameters, int_bit the bit
\* of the pair in the exclusion word.
nbnxn_kernel_pair(v, nbp, xqi, lji, xqj, ljj, int_bit, ci, cj, nonSelfInteraction) ==
    LET \* distance between i and j atoms
        rv == xqi.x + xqj.x
        r2raw == rv * rv
        \* cutoff & exclusion check
        evaluated ==
            IF EXCLUSION_FORCES(v)
            THEN /\ nbnxn_kernel_withinCutoff(r2raw, nbp.rcoulomb_sq)
                 /\ ci # (IF nonSelfInteraction THEN -1 ELSE cj)
            ELSE (IF nbnxn_kernel_withinCutoff(r2raw, nbp.rcoulomb_sq) THEN 1 ELSE 0)
                     * int_bit # 0
        qi == xqi.w
        qj_f == xqj.w
        sigma == lji.x + ljj.x
        epsilon == lji.y * ljj.y
        c6c12 == CASE v.LJ = "LJ" -> fetch_nbfp_c6_c12(nbp, ntypes * lji + ljj)
                   [] v.LJ = "LJ_COMB_GEOM" -> [x |-> lji.x * ljj.x, y |-> lji.y * ljj.y]
                   [] OTHER -> convert_sigma_epsilon_to_c6_c12(sigma, epsilon)
        \* ensure distance do not become so small that r^-12 overflows
        r2 == IF r2raw > c_nbnxnMinDistanceSquared THEN r2raw ELSE c_nbnxnMinDistanceSquared
        inv_r == frsqrt(r2)
        inv_r2 == inv_r * inv_r
        inv_r6 == inv_r2 * inv_r2 * inv_r2 * nbnxn_kernel_maskLJ(v, int_bit)
        sig_r == sigma * inv_r
        sig_r2 == sig_r * sig_r
        sig_r6 == sig_r2 * sig_r2 * sig_r2 * nbnxn_kernel_maskLJ(v, int_bit)
        F_lj == IF v.LJ # "LJ_COMB_LB" \/ v.CALC_ENERGIES
                THEN inv_r6 * (c6c12.y * inv_r6 - c6c12.x) * inv_r2
                ELSE epsilon * sig_r6 * (sig_r6 - 1) * inv_r2
        E_lj_p0 == int_bit
                   * ((c6c12.y * (inv_r6 * inv_r6 + nbp.repulsion_shift.cpot)) \div 12
                      - (c6c12.x * (inv_r6 + nbp.dispersion_shift.cpot)) \div 6)
        \* separate VDW cut-off check to enable twin-range cut-offs
        vdw_in_range == IF v.VDW_CUTOFF_CHECK /\ ~(r2 < nbp.rvdw_sq) THEN 0 ELSE 1
        E_lj_p == IF v.CALC_ENERGIES THEN E_lj_p0 * vdw_in_range ELSE 0
        beta == nbp.ewald_beta
        F_el == CASE v.EL = "EL_CUTOFF" ->
                       qi * qj_f * (IF EXCLUSION_FORCES(v) THEN int_bit ELSE 1) * inv_r2 * inv_r
                  [] v.EL = "EL_RF" ->
                       qi * qj_f * (int_bit * inv_r2 * inv_r - nbp.two_k_rf)
                  [] v.EL = "EL_EWALD_ANA" ->
                       qi * qj_f * (int_bit * inv_r2 * inv_r
                                    + pmecorrF(beta * beta * r2) * beta * beta * beta)
                  [] OTHER ->
                       qi * qj_f * (int_bit * inv_r2
                                    - interpolate_coulomb_force_r(nbp, r2 * inv_r)) * inv_r
        E_el_p == IF ~v.CALC_ENERGIES THEN 0
                  ELSE CASE v.EL = "EL_CUTOFF" -> qi * qj_f * (int_bit * inv_r - nbp.c_rf)
                         [] v.EL = "EL_RF" ->
                              qi * qj_f * (int_bit * inv_r + (nbp.two_k_rf * r2) \div 2
                                           - nbp.c_rf)
                         [] OTHER ->
                              qi * qj_f * (inv_r * (int_bit - erff(r2 * inv_r * beta))
                                           - int_bit * nbp.sh_ewald)
        F_invr == F_lj * vdw_in_range + F_el
    IN [evaluated |-> evaluated,
        inList |-> r2raw < nbp.rlistOuter_sq,
        f_ij |-> IF evaluated THEN rv * F_invr ELSE 0,
        E_lj |-> IF evaluated THEN E_lj_p ELSE 0,
        E_el |-> IF evaluated THEN E_el_p ELSE 0]

\* ------------------------------------------------------------- one block
\* the atom of cluster c a thread with index t loads
AtomOf(c, t) == c * c_clSize + t

\* xqib[i * c_clSize + tidxi]: the i atom preloaded into shared memory, its
\* coordinate shifted and negated, its charge multiplied with epsfac
xqib(ad, nbp, nb_sci, i, tidxi) ==
    LET ai == AtomOf(nb_sci.sci * c_nbnxnGpuNumClusterPerSupercluster + i, tidxi)
        xqbuf == BufRead(ad.xq, ai)
        shift == BufRead(ad.shiftVec, nb_sci.shift)
    IN [x |-> -(xqbuf.x + shift), w |-> xqbuf.w * nbp.epsfac]

\* atom_types[a] or lj_comb[a], whichever the flavor reads
nbnxn_kernel_ljOf(v, ad, a) ==
    IF v.LJ = "LJ" THEN BufRead(ad.atomTypes, a)
    ELSE IF a \in DOMAIN ad.ljComb.nz THEN ad.ljComb.nz[a] ELSE [x |-> 0, y |-> 0]

\* the cluster pairs <<j4, jm, i>> the loops of a block get to: the cj4
\* entries of the super-cluster entry, the j clusters and i clusters whose bit
\* is set in the interaction mask
nbnxn_kernel_clusterPairs(pl, nb_sci) ==
    LET cij4_start == nb_sci.cj4_ind_start
        cij4_end == nb_sci.cj4_ind_start + nb_sci.cj4_length
    IN {p \in (cij4_start..(cij4_end - 1)) \X (0..(c_nbnxnGpuJgroupSize - 1))
                  \X (0..(c_nbnxnGpuNumClusterPerSupercluster - 1)) :
           MaskBit(p[2], p[3]) \in pl.cj4[p[1] + 1].imask}

\* mutant: the shift of the entry is not looked at
nbnxn_kernel_nonSelfInteraction_anyShift(nb_sci, tidxi, tidxj) == ~(tidxj <= tidxi)
\* nonSelfInteraction
nbnxn_kernel_nonSelfInteraction(nb_sci, tidxi, tidxj) ==
    ~(nb_sci.shift = c_centralShiftIndex /\ tidxj <= tidxi)

\* what thread (tidxi, tidxj) computes for cluster pair p
nbnxn_kernel_thread(v, ad, nbp, pl, nb_sci, p, tidxi, tidxj) ==
    LET j4 == p[1]
        jm == p[2]
        i == p[3]
        tidx == tidxj * c_clSize + tidxi
        wexcl == pl.excl[pl.cj4[j4 + 1].excl_ind + 1]
        int_bit == IF tidx \in DOMAIN wexcl /\ MaskBit(jm, i) \in wexcl[tidx] THEN 0 ELSE 1
        ci == nb_sci.sci * c_nbnxnGpuNumClusterPerSupercluster + i
        cj == pl.cj4[j4 + 1].cj[jm + 1]
        ai == AtomOf(ci, tidxi)
        aj == AtomOf(cj, tidxj)
        xqbuf == BufRead(ad.xq, aj)
        r == nbnxn_kernel_pair(v, nbp, xqib(ad, nbp, nb_sci, i, tidxi),
                               nbnxn_kernel_ljOf(v, ad, ai),
                               xqbuf, nbnxn_kernel_ljOf(v, ad, aj), int_bit, ci, cj,
                               nbnxn_kernel_nonSelfInteraction(nb_sci, tidxi, tidxj))
    IN [p |-> p, ai |-> ai, aj |-> aj, int_bit |-> int_bit,
        evaluated |-> r.evaluated, inList |-> r.inList,
        f_ij |-> r.f_ij, E_lj |-> r.E_lj, E_el |-> r.E_el]

\* what the threads of a block compute, for every cluster pair of its loops
nbnxn_kernel_threads(v, ad, nbp, pl, nb_sci) ==
    {nbnxn_kernel_thread(v, ad, nbp, pl, nb_sci, p, t[1], t[2]) :
        p \in nbnxn_kernel_clusterPairs(pl, nb_sci), t \in ThreadIdx \X ThreadIdx}

\* mutant: the i forces are accumulated with the sign of the j forces
nbnxn_kernel_fci_buf_added(fci_buf, f_ij) == fci_buf + f_ij
\* accumulate i forces in registers
nbnxn_kernel_fci_buf(fci_buf, f_ij) == fci_buf - f_ij

\* fcj_buf and fci_buf, reduced over the threads and added to f: every pair
\* adds f_ij to the force of its j atom and takes it from the force of its i
\* atom
RECURSIVE nbnxn_kernel_addForces(_, _)
nbnxn_kernel_addForces(f, R) ==
    IF R = {} THEN f
    ELSE LET r == CHOOSE x \in R : TRUE
         IN nbnxn_kernel_addForces(
                atomicAdd(atomicAdd(f, r.aj, r.f_ij), r.ai, nbnxn_kernel_fci_buf(0, r.f_ij)),
                R \ {r})

RECURSIVE SumField(_, _)
SumField(R, field) ==
    IF R = {} THEN 0
    ELSE LET r == CHOOSE x \in R : TRUE IN r[field] + SumField(R \ {r}, field)

\* pl_cj4[cij4_start].cj[0] as the self-energy test reads it: the first j
\* cluster of the entry at cij4_start, whether or not the range of the
\* super-cluster entry holds it; past the end of the array the read gives
\* whatever the memory holds, below oob
nbnxn_kernel_firstCj(pl, nb_sci, oob) ==
    IF nb_sci.cj4_ind_start < Len(pl.cj4)
    THEN pl.cj4[nb_sci.cj4_ind_start + 1].cj[1]
    ELSE oob

\* we have the diagonal: add the charge self interaction energy term
nbnxn_kernel_haveDiagonal(pl, nb_sci, oob) ==
    /\ nb_sci.shift = c_centralShiftIndex
    /\ nbnxn_kernel_firstCj(pl, nb_sci, oob)
           = nb_sci.sci * c_nbnxnGpuNumClusterPerSupercluster

\* the self term of E_el in the thread with index tidxi, in units of
\* 1/sqrt(pi) with Ewald
nbnxn_kernel_selfTerm(v, ad, nbp, nb_sci, tidxi) ==
    LET qi2 == [i \in 0..(c_nbnxnGpuNumClusterPerSupercluster - 1) |->
                   xqib(ad, nbp, nb_sci, i, tidxi).w * xqib(ad, nbp, nb_sci, i, tidxi).w]
        E_el == SumOver(qi2, DOMAIN qi2) \div (nbp.epsfac * c_clSize * NTHREAD_Z)
    IN IF EL_EWALD_ANY(v) THEN E_el * (-nbp.ewald_beta)
       ELSE (E_el * (-nbp.c_rf)) \div 2

\* E_el of the block before the loop over the j clusters, summed over its threads
nbnxn_kernel_selfEnergy(v, ad, nbp, pl, nb_sci, oob) ==
    IF v.CALC_ENERGIES /\ EXCLUSION_FORCES(v) /\ nbnxn_kernel_haveDiagonal(pl, nb_sci, oob)
    THEN LET perThread == [tidxi \in ThreadIdx |->
                              nbnxn_kernel_selfTerm(v, ad, nbp, nb_sci, tidxi)]
         IN c_clSize * SumOver(perThread, ThreadIdx)
    ELSE 0

\* none of the atom pairs of cluster pair p is in range of the list cut-off
nbnxn_kernel_prunes(R, p) == ~\E r \in R : r.p = p /\ r.inList

\* mutant: a pruning block clears every bit of the cluster pairs it gets to
nbnxn_kernel_prune_all(T, pl, nb_sci) ==
    LET pruned == {MaskBit(p[2], p[3]) + 32 * p[1] :
                      p \in nbnxn_kernel_clusterPairs(pl, nb_sci)}
    IN [j4 \in 1..Len(pl.cj4) |->
           [pl.cj4[j4] EXCEPT !.imask = {b \in @ : b + 32 * (j4 - 1) \notin pruned}]]
\* the interaction masks a pruning block writes back, T being what its
\* threads computed
nbnxn_kernel_prune(T, pl, nb_sci) ==
    LET pruned == {MaskBit(p[2], p[3]) + 32 * p[1] :
                      p \in {q \in nbnxn_kernel_clusterPairs(pl, nb_sci) :
                                 nbnxn_kernel_prunes(T, q)}}
    IN [j4 \in 1..Len(pl.cj4) |->
           [pl.cj4[j4] EXCEPT !.imask = {b \in @ : b + 32 * (j4 - 1) \notin pruned}]]

\* ------------------------------------------------ the collectives of a lane
\* a collective, with the cluster pair group, j cluster and i cluster it is
\* executed for
collective(op, j4, jm, i) == [op |-> op, j4 |-> j4, jm |-> jm, i |-> i]
\* the cluster pair groups of the pair lists of the model
MaxCj4 == 2
\* the any votes of the i clusters of j cluster jm of group j4, in the order of
\* the loop over i
nbnxn_kernel_anyVotes ==
    [j4 \in 0..(MaxCj4 - 1) |->
        [jm \in 0..(c_nbnxnGpuJgroupSize - 1) |->
            [k \in 1..c_nbnxnGpuNumClusterPerSupercluster |->
                collective("__nb_any", j4, jm, k - 1)]]]
\* the reductions of the i forces, in the order of the loop over i, and the
\* reduction of the energies
nbnxn_kernel_reduceI ==
    [k \in 1..c_nbnxnGpuNumClusterPerSupercluster |->
        collective("reduce_force_i_warp_shfl", -1, -1, k - 1)]
nbnxn_kernel_reduceE == <<collective("reduce_energy_warp_shfl", -1, -1, -1)>>
\* The sub-group collectives lane (tidxi, tidxj) of a block executes, in
\* program order: the any vote of the pruning flavors for every cluster pair
\* whose bit is set, the reduction of the j forces after the i clusters of
\* every j cluster with a bit set, the reductions of the i forces, and the
\* reduction of the energies.  T is what the threads of the block computed.
\* With voteInPairCheck the vote is placed inside the cut-off and exclusion
\* check of the lane, where the kernel has none.
nbnxn_kernel_collectivesOfLane(v, T, pl, nb_sci, tidxi, tidxj, voteInPairCheck) ==
    LET cij4_start == nb_sci.cj4_ind_start
        cij4_end == nb_sci.cj4_ind_start + nb_sci.cj4_length
        imask(j4) == pl.cj4[j4 + 1].imask
        maskSet(j4, jm) ==
            \E i \in 0..(c_nbnxnGpuNumClusterPerSupercluster - 1) : MaskBit(jm, i) \in imask(j4)
        passesCheck(j4, jm, i) ==
            \E r \in T : /\ r.p = <<j4, jm, i>>
                         /\ r.ai % c_clSize = tidxi /\ r.aj % c_clSize = tidxj
                         /\ r.evaluated
        votes(j4, jm) ==
            LET reached(c) == /\ v.PRUNE_NBL
                              /\ MaskBit(jm, c.i) \in imask(j4)
                              /\ voteInPairCheck => passesCheck(j4, jm, c.i)
            IN SelectSeq(nbnxn_kernel_anyVotes[j4][jm], reached)
        ofJ(j4, jm) ==
            IF maskSet(j4, jm)
            THEN votes(j4, jm) \o <<collective("reduce_force_j_warp_shfl", j4, jm, -1)>>
            ELSE << >>
        ofJ4[j4 \in cij4_start..cij4_end] ==
            IF j4 = cij4_end THEN << >>
            ELSE (IF ~v.PRUNE_NBL /\ imask(j4) = {} THEN << >>
                  ELSE ofJ(j4, 0) \o ofJ(j4, 1) \o ofJ(j4, 2) \o ofJ(j4, 3)) \o ofJ4[j4 + 1]
    IN ofJ4[cij4_start] \o nbnxn_kernel_reduceI
           \o (IF v.CALC_ENERGIES THEN nbnxn_kernel_reduceE ELSE << >>)

\* mutant: the any vote sits inside the cut-off and exclusion check
nbnxn_kernel_collectives_voteInPairCheck(v, T, pl, nb_sci, tidxi, tidxj) ==
    nbnxn_kernel_collectivesOfLane(v, T, pl, nb_sci, tidxi, tidxj, TRUE)
\* the collectives of a lane of the kernel
nbnxn_kernel_collectives(v, T, pl, nb_sci, tidxi, tidxj) ==
    nbnxn_kernel_collectivesOfLane(v, T, pl, nb_sci, tidxi, tidxj, FALSE)
\* mutant: the shift forces of the central shift are summed as well
nbnxn_kernel_bCalcFshift_keepsCentral(bCalcFshift, nb_sci) == bCalcFshift
\* bCalcFshift after "skip central shifts when summing shift forces"
nbnxn_kernel_bCalcFshift(bCalcFshift, nb_sci) ==
    bCalcFshift /\ nb_sci.shift # c_centralShiftIndex
\* Block bidx: A = [f, fShift, eLJ, eElec] are the global buffers, pl the
\* pair list; the result is both after the block has run.
nbnxn_kernel_threadBlock(A, pl, v, ad, nbp, bidx, bCalcFshiftArg, oob) ==
    LET nb_sci == pl.sci[bidx + 1]
        T == nbnxn_kernel_threads(v, ad, nbp, pl, nb_sci)
        \* the pairs of atoms that pass the cut-off and exclusion check
        R == {r \in T : r.evaluated}
        \* skip central shifts when summing shift forces
        bCalcFshift == nbnxn_kernel_bCalcFshift(bCalcFshiftArg, nb_sci)
        fshift_buf == nbnxn_kernel_fci_buf(0, SumField(R, "f_ij"))
        E_lj == SumField(R, "E_lj")
        E_el == nbnxn_kernel_selfEnergy(v, ad, nbp, pl, nb_sci, oob) + SumField(R, "E_el")
    IN [A |-> [f |-> nbnxn_kernel_addForces(A.f, R),
               fShift |-> IF bCalcFshift
                          THEN atomicAdd(A.fShift, nb_sci.shift + shift_index_base(bidx),
                                         fshift_buf)
                          ELSE A.fShift,
               eLJ |-> IF v.CALC_ENERGIES
                       THEN atomicAdd(A.eLJ, energy_index_base(bidx), E_lj) ELSE A.eLJ,
               eElec |-> IF v.CALC_ENERGIES
                         THEN atomicAdd(A.eElec, energy_index_base(bidx), E_el)
                         ELSE A.eElec],
        pl |-> IF v.PRUNE_NBL
               THEN [pl EXCEPT !.cj4 = nbnxn_kernel_prune(T, pl, nb_sci)]
               ELSE pl]

\* the grid: one block per super-cluster entry
RECURSIVE nbnxn_kernel_grid(_, _, _, _, _, _, _, _)
nbnxn_kernel_grid(A, pl, v, ad, nbp, bidx, bCalcFshift, oob) ==
    IF bidx >= Len(pl.sci) THEN [A |-> A, pl |-> pl]
    ELSE LET r == nbnxn_kernel_threadBlock(A, pl, v, ad, nbp, bidx, bCalcFshift, oob)
         IN nbnxn_kernel_grid(r.A, r.pl, v, ad, nbp, bidx + 1, bCalcFshift, oob)

\* ------------------------------------------------- inputs of the kernel
\* number of kernel launches a behaviour runs through
MaxLaunches == 2

\* The interaction constants of the kernel runs: Coulomb cut-off 3, the VdW
\* cut-off equal to it or shorter (twin cut-off), on the distances of the model.
KernelInteractionConst(eeltype, rvdw) ==
    [InteractionConst(3, 1, <<9, 8, 7, 6, 5>>) EXCEPT
        !.eeltype = eeltype, !.rvdw = rvdw, !.epsfac = 8,
        !.reactionFieldCoefficient = 1, !.reactionFieldShift = 2,
        !.coulombEwaldTables = [scale |-> 1, tableF |-> <<9, 8, 7, 6, 5>>]]
\* the settings of the kernel runs: plain cut-off, reaction field, and Ewald
\* with the tabulated and the analytical kernels, single and twin cut-off
KernelSettings ==
    {<<KernelInteractionConst("Cut", 3), NoEnv>>, <<KernelInteractionConst("RF", 3), NoEnv>>}
    \cup ({KernelInteractionConst("Pme", 3), KernelInteractionConst("Pme", 2)}
              \X EnvsOfInit)
KernelListParams == [rlistOuter |-> 4, rlistInner |-> 3, useDynamicPruning |-> TRUE]
KernelCombinationRules == {"None", "Geometric", "LorentzBerthelot"}

\* The atoms of super-cluster 0.  Atom 0 of cluster 0 sits at the origin;
\* atom 1 of cluster 0, if the input has it, sits at 2, atom 0 of cluster 1
\* (atom 8) where the input places it; every other atom is a filler: far from every atom, no charge, no LJ interaction.
\* The periodic shift next to the central one moves an atom by BoxLength.
NumKernelAtoms == c_nbnxnGpuNumClusterPerSupercluster * c_clSize
BoxLength == 6
FillerDistance == 100
HostXq(hasAtom1, x8) ==
    [a \in 0..(NumKernelAtoms - 1) |->
        CASE a = 0 -> [x |-> 0, w |-> 1]
          [] a = 1 /\ hasAtom1 -> [x |-> 2, w |-> 1]
          [] a = AtomOf(1, 0) -> [x |-> x8, w |-> 1]
          [] OTHER -> [x |-> FillerDistance * (a + 1), w |-> 0]]
HostAtomTypes(xq) == [a \in {b \in DOMAIN xq : xq[b].w # 0} |-> 1]
HostLjComb(xq, vdwType) ==
    [a \in {b \in DOMAIN xq : xq[b].w # 0} |->
        IF vdwType = "CutCombGeom" THEN [x |-> 6, y |-> 12] ELSE [x |-> 1, y |-> 1]]
\* The shift next to that one belongs to a box vector that brings atom 1 of
\* cluster 2 next to atom 0 of cluster 2.
HostShiftVec ==
    [s \in {c_centralShiftIndex + 1, c_centralShiftIndex + 2} |->
        IF s = c_centralShiftIndex + 1 THEN BoxLength ELSE 1 - FillerDistance]
KernelPlacements == BOOLEAN \X {2, 3, BoxLength + 2}

\* the atom data on the device, after gpu_init_atomdata, the upload of the
\* shift vectors and the upload of the coordinates
KernelAtomdata(vdwType, xq) ==
    LET nbat == [numAtoms |-> NumKernelAtoms, natoms_local |-> NumKernelAtoms]
        ad == gpu_init_atomdata_result(initAtomdataFirst, vdwType, nbat, InitDevState).atdat
    IN [ad EXCEPT !.xq.nz = xq,
                  !.atomTypes.nz = IF useLjCombRule(vdwType) THEN @ ELSE HostAtomTypes(xq),
                  !.ljComb.nz = IF useLjCombRule(vdwType) THEN HostLjComb(xq, vdwType) ELSE @,
                  !.shiftVec.nz = HostShiftVec,
                  !.shiftVecUploaded = TRUE]

\* nbnxn_sci_t and nbnxn_cj4_t
nbnxn_sci_t(sci, shift, cj4_ind_start, cj4_length) ==
    [sci |-> sci, shift |-> shift, cj4_ind_start |-> cj4_ind_start,
     cj4_length |-> cj4_length]
nbnxn_cj4_t(cj, imask, excl_ind) == [cj |-> cj, imask |-> imask, excl_ind |-> excl_ind]

\* The exclusion word of a cluster pair group, per thread the bits that are
\* clear.  In the pair of cluster 0 with itself on the central shift the list
\* builder clears the bit of every pair with tidxj <= tidxi; excl01 excludes
\* atom 1 from atom 0, excl08 atom 8 from atom 0, cluster 1 being j cluster
\* jm08 of the group.
ExclusionWord(diagonal, excl01, excl08, jm08) ==
    LET cleared(tidxi, tidxj) ==
            (IF diagonal /\ tidxj <= tidxi THEN {MaskBit(0, 0)} ELSE {})
            \cup (IF excl01 /\ tidxi = 0 /\ tidxj = 1 THEN {MaskBit(0, 0)} ELSE {})
            \cup (IF excl08 /\ tidxi = 0 /\ tidxj = 0 THEN {MaskBit(jm08, 0)} ELSE {})
        T == {t \in ThreadIdx \X ThreadIdx : cleared(t[1], t[2]) # {}}
    IN [tidx \in {t[2] * c_clSize + t[1] : t \in T} |->
           cleared(tidx % c_clSize, tidx \div c_clSize)]

\* The pair lists of the kernel runs (NbnxnPairlistGpu, as uploaded by
\* gpu_init_pairlist): no entry; an entry with an empty range of cluster pair
\* groups; such an entry before one on a shifted image; cluster 0 with itself
\* and with cluster 1; cluster 0 with cluster 1 alone, on the central shift
\* and on a shifted image; a group whose mask has no bit set; cluster 2 with
\* itself on a shifted image.
KernelPairlist(sci, cj4, excl) == [na_ci |-> c_clSize, sci |-> sci, cj4 |-> cj4, excl |-> excl]
KernelPairlists(excl01, excl08) ==
    LET central == c_centralShiftIndex
        noExcl == ExclusionWord(FALSE, FALSE, FALSE, 1)
        own == <<0, 1, 2, 3>>
        other == <<1, 2, 3, 4>>
    IN {KernelPairlist(<< >>, << >>, <<noExcl>>),
        KernelPairlist(<<nbnxn_sci_t(0, central, 0, 0)>>, << >>, <<noExcl>>),
        KernelPairlist(<<nbnxn_sci_t(0, central, 0, 0), nbnxn_sci_t(0, central + 1, 0, 1)>>,
                       <<nbnxn_cj4_t(own, {MaskBit(1, 0)}, 1)>>,
                       <<noExcl, ExclusionWord(FALSE, FALSE, excl08, 1)>>),
        KernelPairlist(<<nbnxn_sci_t(0, central, 0, 1)>>,
                       <<nbnxn_cj4_t(own, {MaskBit(0, 0), MaskBit(1, 0)}, 1)>>,
                       <<noExcl, ExclusionWord(TRUE, excl01, excl08, 1)>>),
        KernelPairlist(<<nbnxn_sci_t(0, central, 0, 1)>>,
                       <<nbnxn_cj4_t(other, {MaskBit(0, 0)}, 1)>>,
                       <<noExcl, ExclusionWord(FALSE, FALSE, excl08, 0)>>),
        KernelPairlist(<<nbnxn_sci_t(0, central + 1, 0, 1)>>,
                       <<nbnxn_cj4_t(own, {MaskBit(1, 0)}, 1)>>,
                       <<noExcl, ExclusionWord(FALSE, FALSE, excl08, 1)>>),
        KernelPairlist(<<nbnxn_sci_t(0, central, 0, 1)>>,
                       <<nbnxn_cj4_t(own, {}, 0)>>, <<noExcl>>),
        KernelPairlist(<<nbnxn_sci_t(0, central + 2, 0, 1)>>,
                       <<nbnxn_cj4_t(own, {MaskBit(2, 2)}, 0)>>, <<noExcl>>)}

\* the pair list on the device: gpu_init_pairlist on a new handle, with the
\* contents of the cj4 and excl buffers
KernelPlist(h) ==
    LET d == gpu_init_pairlist_plist(init_plist,
                                     [na_ci |-> h.na_ci, sci |-> h.sci,
                                      cj4 |-> Len(h.cj4), excl |-> Len(h.excl)])
    IN [fld \in DOMAIN d \cup {"cj4", "excl"} |->
           CASE fld = "cj4" -> h.cj4
             [] fld = "excl" -> h.excl
             [] OTHER -> d[fld]]

\* what the memory past the end of the cj4 buffer may hold where a cluster
\* index is read
StrayClusterIndices == {0, 1}
ReadsPastEnd(pl) ==
    \E bidx \in 1..Len(pl.sci) : pl.sci[bidx].cj4_ind_start >= Len(pl.cj4)

InitKernel ==
    /\ bUseTwoStreams = FALSE
    /\ bNonLocalStreamDoneMarked = FALSE
    /\ haveWork = [l \in InteractionLocality |-> l = Local]
    /\ \E s \in KernelSettings, rule \in KernelCombinationRules :
          nbparam = initNbparam(s[1], KernelListParams, NbatParams(rule), s[2])
    /\ \E x \in KernelPlacements :
          atdat = KernelAtomdata(nbparam.vdwType, HostXq(x[1], x[2]))
    /\ \E excl01 \in BOOLEAN, excl08 \in BOOLEAN :
          /\ ~(excl01 /\ excl08)
          /\ \E h \in KernelPairlists(excl01, excl08) :
                plist = [l \in InteractionLocality |->
                            IF l = Local THEN KernelPlist(h) ELSE NoPlist]
    /\ xbuf = [atomIndicesSize |-> 0, atomIndicesSize_alloc |-> 0,
               ncxy_na |-> 0, ncxy_na_alloc |-> 0, ncxy_ind |-> 0, ncxy_ind_alloc |-> 0]
    /\ nbst = [fShift |-> EmptyFn, eLJ |-> 0, eElec |-> 0]
    /\ out_f = EmptyFn
    /\ deviceStreams = InitDevState.q
    /\ ordered = InitDevState.ordered
    /\ nonlocal_done = InitDevState.nonlocal_done
    /\ misc_ops_and_local_H2D_done = InitDevState.misc_ops_and_local_H2D_done
    /\ step = 0
    /\ pc = [call |-> "gpu_init_pairlist", outcome |-> "returned"]
    /\ stepWork \in [computeVirial : BOOLEAN, computeEnergy : BOOLEAN,
                     useGpuFBufferOps : {FALSE}]
    /\ isSearchStep = TRUE
    /\ simWork = [haveInteractions |-> FALSE, useGpuXBufferOps |-> FALSE,
                  bDynamicBox |-> FALSE]
    /\ stepAcc = NoStepAcc

\* A launch of nbnxn_kernel on the local pair list.  The flavor computes
\* energies on energy steps and prunes a fresh list; shift forces are summed
\* on virial steps.  step counts the launches.
launch_nbnxn_kernel ==
    /\ pc.outcome = "returned"
    /\ HandleIsLive
    /\ step < MaxLaunches
    /\ \E oob \in IF ReadsPastEnd(plist[Local]) THEN StrayClusterIndices ELSE {0} :
          LET v == KernelFlavor(nbparam, stepWork.computeEnergy, plist[Local].haveFreshList)
          IN \E r \in {nbnxn_kernel_grid([f |-> atdat.f, fShift |-> atdat.fShift,
                                          eLJ |-> atdat.eLJ, eElec |-> atdat.eElec],
                                         plist[Local], v, atdat, nbparam, 0,
                                         stepWork.computeVirial, oob)} :
                /\ atdat' = [atdat EXCEPT !.f = r.A.f, !.fShift = r.A.fShift,
                                          !.eLJ = r.A.eLJ, !.eElec = r.A.eElec]
                /\ plist' = [plist EXCEPT ![Local] = [r.pl EXCEPT !.haveFreshList = FALSE]]
                /\ pc' = [call |-> "nbnxn_kernel", flavor |-> v,
                          bCalcFshift |-> stepWork.computeVirial, outcome |-> "returned"]
    /\ step' = step + 1
    /\ UNCHANGED <<bUseTwoStreams, bNonLocalStreamDoneMarked, haveWork, nbparam, xbuf,
                   nbst, out_f, deviceStreams, ordered, nonlocal_done,
                   misc_ops_and_local_H2D_done, stepWork, isSearchStep, simWork, stepAcc>>

\* the kernel on the lists, atoms and parameters above
NextKernel == launch_nbnxn_kernel
SpecKernel == InitKernel /\ [][NextKernel]_vars

\* ================================================================== claims
\* operations of the current step on a stream, by the handlers in fns
StepOpsBy(loc, fns) == {o \in OpsOn(loc) : o.id[1] = step /\ o.by \in fns}
\* the positions in the stream of loc of the operations that satisfy P
Positions(loc, P(_)) == {i \in 1..Len(deviceStreams[loc]) : P(deviceStreams[loc][i])}

IsStepOp(o, by, kind, buf) ==
    o.id[1] = step /\ o.by = by /\ o.kind = kind /\ o.buf = buf

C2_LocalDownloadAfterNonLocal ==
    (pc = "clear" /\ bUseTwoStreams /\ haveWork[NonLocal]) =>
        /\ \E w \in OpsOn(Local) :
              /\ IsStepOp(w, "gpu_launch_cpyback", "wait", "nonlocal_done")
              /\ \A d \in OpsOn(Local) :
                    (d.id[1] = step /\ d.kind = "D2H") => HappensBefore(w, d)
        /\ \A d \in OpsOn(Local), n \in OpsOn(NonLocal) :
              (/\ d.id[1] = step /\ d.kind = "D2H"
               /\ n.id[1] = step /\ n.by = "gpu_launch_cpyback")
              => HappensBefore(n, d)

C2_Witness ==
    /\ pc = "clear" /\ bUseTwoStreams /\ haveWork[NonLocal]
    /\ \E d \in OpsOn(Local) : IsStepOp(d, "gpu_launch_cpyback", "D2H", "f")
    /\ \E d \in OpsOn(Local) : IsStepOp(d, "gpu_launch_cpyback", "D2H", "fShift")
    /\ \E n \in OpsOn(NonLocal) : IsStepOp(n, "gpu_launch_cpyback", "D2H", "f")

\* ---- C3
\* the mark of misc_ops_and_local_H2D_done by the local upload of the step
IsLocalUploadMark(m) ==
    IsStepOp(m, "gpu_copy_xq_to_gpu", "mark", "misc_ops_and_local_H2D_done")

\* C3 (as stated): in two-stream mode every operation gpu_copy_xq_to_gpu
\* enqueues on the non-local stream in a step, the non-local upload included,
\* is ordered after the event the local upload marked in that step.
C3_NonLocalUploadAfterLocalMark ==
    bUseTwoStreams =>
        \A m \in OpsOn(Local), o \in StepOpsBy(NonLocal, {"gpu_copy_xq_to_gpu"}) :
            IsLocalUploadMark(m) => HappensBefore(m, o)

\* C3 (amended): in two-stream mode the non-local gpu_copy_xq_to_gpu with
\* work enqueues the upload first and the wait on misc_ops_and_local_H2D_done
\* after it; the wait and everything enqueued on the non-local stream after
\* it in the step is ordered after the event the local upload marked in that
\* step, and the non-local upload itself is not.
C3_NonLocalWorkAfterLocalMark ==
    (bUseTwoStreams /\ haveWork[NonLocal] /\ pc \in {"kernNL", "cpyNL", "cpyL", "clear"}) =>
        \E m \in OpsOn(Local) :
            /\ IsLocalUploadMark(m)
            /\ \E i \in 1..Len(deviceStreams[NonLocal]) :
                  /\ IsStepOp(deviceStreams[NonLocal][i], "gpu_copy_xq_to_gpu", "wait",
                              "misc_ops_and_local_H2D_done")
                  /\ \A j \in i..Len(deviceStreams[NonLocal]) :
                        HappensBefore(m, deviceStreams[NonLocal][j])
                  /\ \E j \in 1..(i - 1) :
                        IsStepOp(deviceStreams[NonLocal][j], "gpu_copy_xq_to_gpu", "H2D", "xq")
            /\ \A u \in OpsOn(NonLocal) :
                  IsStepOp(u, "gpu_copy_xq_to_gpu", "H2D", "xq") => ~HappensBefore(m, u)

C3_Witness ==
    /\ pc = "clear" /\ bUseTwoStreams /\ haveWork[NonLocal]
    /\ \E k \in OpsOn(NonLocal) : IsStepOp(k, "gpu_launch_kernel", "kernel", "f")
    /\ \E u \in OpsOn(NonLocal) : IsStepOp(u, "gpu_copy_xq_to_gpu", "H2D", "xq")
    /\ \E d \in OpsOn(NonLocal) : IsStepOp(d, "gpu_launch_cpyback", "D2H", "f")

\* ---- C4
\* the handlers of a step that work on a stream
StepHandlers == {"gpu_copy_xq_to_gpu", "gpu_launch_kernel", "gpu_launch_cpyback"}
\* a zero-fill gpu_clear_outputs enqueued in step k
IsClearOf(c, k) == c.id[1] = k /\ c.by = "gpu_clear_outputs" /\ c.kind = "clear"

\* C4 (as stated): the local stream's zero-fill of the force, shift-force and
\* energy buffers is ordered after all non-local-stream work of its step and
\* before any non-local-stream work of the next step.
C4_ClearOrderedWithNonLocalWork ==
    bUseTwoStreams =>
        \A c \in OpsOn(Local), o \in StepOpsBy(NonLocal, StepHandlers) :
            /\ IsClearOf(c, step) => HappensBefore(o, c)
            /\ IsClearOf(c, step - 1) => HappensBefore(c, o)

\* C4 (amended): the zero-fill is ordered after everything the non-local
\* upload, kernel launch and copy-back of its step enqueued on the non-local
\* stream, and before everything they enqueue there in the next step except
\* the non-local coordinate upload, which is enqueued before the non-local
\* stream waits for the local one; in particular every non-local kernel,
\* the only non-local writer of the buffers that are zero-filled, is ordered
\* with every zero-fill.
C4_ClearOrderedExceptUpload ==
    bUseTwoStreams =>
        \A c \in OpsOn(Local), o \in StepOpsBy(NonLocal, StepHandlers) :
            /\ IsClearOf(c, step) => HappensBefore(o, c)
            /\ (IsClearOf(c, step - 1) /\ ~(o.kind = "H2D" /\ o.buf = "xq"))
                  => HappensBefore(c, o)

C4_Witness ==
    /\ pc = "begin" /\ step = 2 /\ bUseTwoStreams
    /\ \E c \in OpsOn(Local) : IsClearOf(c, 1) /\ c.buf = "fShift"
    /\ \E c \in OpsOn(Local) : IsClearOf(c, 2) /\ c.buf = "eLJ"
    /\ \E k \in OpsOn(NonLocal) : IsStepOp(k, "gpu_launch_kernel", "kernel", "f")
    /\ \E d \in OpsOn(NonLocal) : IsStepOp(d, "gpu_launch_cpyback", "D2H", "f")

\* ---- C5
\* a value of a host array kept sparsely
HostRead(h, i) == IF i \in DOMAIN h THEN h[i] ELSE 0

\* C5 (as stated): after the local copy-back of a step, with the virial
\* requested the staged shift forces equal, shift vector by shift vector, the
\* contributions the kernels of the step accumulated, and with the energies
\* requested the staged energies equal the energy contributions of the step.
C5_DownloadEqualsSlotSum ==
    pc = "clear" =>
        /\ stepWork.computeVirial =>
              \A s \in 0..(c_numShiftVectors - 1) :
                  HostRead(nbst.fShift, s) = HostRead(stepAcc.fShift, s)
        /\ stepWork.computeEnergy =>
              nbst.eLJ = stepAcc.eLJ /\ nbst.eElec = stepAcc.eElec

\* ---- C6
\* all slots of the shift-force and energy accumulators are zero
AccumulatorsAreZero(ad) ==
    /\ BufIsZero(ad.fShift, 0, c_clShiftMemorySize * c_numShiftVectors)
    /\ BufIsZero(ad.eLJ, 0, c_clEnergyMemorySize)
    /\ BufIsZero(ad.eElec, 0, c_clEnergyMemorySize)

\* C6 (as stated): whatever the computeVirial and computeEnergy flags of the
\* steps so far, with gpu_clear_outputs called once per step with the step's
\* computeVirial, every slot of the shift-force and energy accumulators is
\* zero when the kernels of a step start accumulating.
C6_AccumulatorsZeroAtKernelStart ==
    pc = "kernL" => AccumulatorsAreZero(atdat)

\* ---- C7
\* C7 (as stated): every gpu_clear_outputs leaves the force buffer zero over
\* [0, numAtoms); when the step requires the virial or the energies it leaves
\* all slots of the shift-force and energy accumulators zero, and otherwise
\* it leaves those accumulators unchanged.
C7_ClearOutputsEffect ==
    [][pc = "clear" =>
          /\ BufIsZero(atdat'.f, 0, atdat.numAtoms)
          /\ IF stepWork.computeVirial \/ stepWork.computeEnergy
             THEN AccumulatorsAreZero(atdat')
             ELSE /\ atdat'.fShift = atdat.fShift
                  /\ atdat'.eLJ = atdat.eLJ
                  /\ atdat'.eElec = atdat.eElec]_vars

\* ---- C8
\* C8: every download of the shift forces is enqueued by a local copy-back of
\* a step with computeVirial, every download of an energy by a local copy-back
\* of a step with computeEnergy, and no such download is ever on the non-local
\* stream; the local copy-back of a step with the flag does enqueue them.
C8_ShiftAndEnergyDownloadsLocalOnly ==
    /\ \A loc \in InteractionLocality : \A o \in OpsOn(loc) :
          (o.id[1] = step /\ o.kind = "D2H") =>
              /\ o.buf = "fShift" => loc = Local /\ stepWork.computeVirial
              /\ o.buf \in {"eLJ", "eElec"} => loc = Local /\ stepWork.computeEnergy
    /\ pc = "clear" =>
          /\ stepWork.computeVirial <=>
                \E o \in OpsOn(Local) : IsStepOp(o, "gpu_launch_cpyback", "D2H", "fShift")
          /\ \A b \in {"eLJ", "eElec"} :
                stepWork.computeEnergy <=>
                    \E o \in OpsOn(Local) : IsStepOp(o, "gpu_launch_cpyback", "D2H", b)

C8_Witness ==
    /\ pc = "clear" /\ bUseTwoStreams /\ haveWork[NonLocal]
    /\ stepWork.computeVirial /\ stepWork.computeEnergy
    /\ \E o \in OpsOn(NonLocal) : IsStepOp(o, "gpu_launch_cpyback", "mark", "nonlocal_done")
    /\ \E o \in OpsOn(Local) : IsStepOp(o, "gpu_launch_cpyback", "D2H", "fShift")
    /\ \E o \in OpsOn(Local) : IsStepOp(o, "gpu_launch_cpyback", "D2H", "eElec")

\* ---- C9
\* the force downloads the copy-back of the step enqueued on the stream of loc
ForceDownloads(loc) ==
    Positions(loc, LAMBDA o : IsStepOp(o, "gpu_launch_cpyback", "D2H", "f"))
\* after the copy-back of a locality with work: one force download of the
\* atoms [lo, lo + n) without device-side force buffer operations, none with
OneForceDownload(loc, lo, n) ==
    /\ Cardinality(ForceDownloads(loc)) = (IF stepWork.useGpuFBufferOps THEN 0 ELSE 1)
    /\ \A i \in ForceDownloads(loc) :
          deviceStreams[loc][i].lo = lo /\ deviceStreams[loc][i].n = n

\* C9: the copy-back of a locality that has work enqueues exactly one force
\* download, of the local atoms [0, numAtomsLocal) for the local locality and
\* of the non-local atoms [numAtomsLocal, numAtoms) for the non-local one,
\* when useGpuFBufferOps is false, and no force download when it is true.
C9_OneForceDownloadPerLocality ==
    /\ (pc = "cpyL" /\ bUseTwoStreams /\ haveWork[NonLocal]) =>
          OneForceDownload(NonLocal, atdat.numAtomsLocal,
                           atdat.numAtoms - atdat.numAtomsLocal)
    /\ (pc = "clear" /\ haveWork[Local]) =>
          OneForceDownload(Local, 0, atdat.numAtomsLocal)

C9_Witness ==
    /\ pc = "clear" /\ bUseTwoStreams /\ haveWork[NonLocal] /\ haveWork[Local]
    /\ ~stepWork.useGpuFBufferOps
    /\ Cardinality(ForceDownloads(Local)) = 1
    /\ Cardinality(ForceDownloads(NonLocal)) = 1
    /\ atdat.numAtoms - atdat.numAtomsLocal > 0

\* ---- C10
\* the coordinate uploads gpu_copy_xq_to_gpu enqueued in the step on a stream
CoordinateUploads(loc) ==
    Positions(loc, LAMBDA o : IsStepOp(o, "gpu_copy_xq_to_gpu", "H2D", "xq"))

\* C10: after gpu_copy_xq_to_gpu(NonLocal) without non-local work no
\* coordinate upload is on the non-local stream, the non-local pair list is
\* not fresh and misc_ops_and_local_H2D_done is unmarked; after
\* gpu_copy_xq_to_gpu(Local), with local work or without, exactly one upload
\* of the local atoms [0, numAtomsLocal) is on the local stream.
C10_UploadSkippedOnlyNonLocal ==
    /\ (pc = "kernNL" /\ ~haveWork[NonLocal]) =>
          /\ CoordinateUploads(NonLocal) = {}
          /\ ~plist[NonLocal].haveFreshList
          /\ ~misc_ops_and_local_H2D_done.marked
    /\ pc = "kernL" =>
          /\ Cardinality(CoordinateUploads(Local)) = 1
          /\ \A i \in CoordinateUploads(Local) :
                /\ deviceStreams[Local][i].lo = 0
                /\ deviceStreams[Local][i].n = atdat.numAtomsLocal

C10_Witness ==
    /\ pc = "kernNL" /\ ~haveWork[NonLocal] /\ ~haveWork[Local] /\ isSearchStep
    /\ CoordinateUploads(NonLocal) = {}
    /\ Cardinality(CoordinateUploads(Local)) = 1

\* ---- C11
\* the call that led to the state of the primed variables
IsCall(p, call) == p.call = call /\ p.outcome = "returned"

\* C11 (as stated): a setupGpuShortRangeWork call for a locality, also one
\* before the first gpu_init_pairlist for it, leaves the cached work flag of
\* the locality true exactly if the device pair list of the locality holds at
\* least one super-cluster entry or the bonded collaborator reports
\* interactions; and no other call changes a cached flag.
C11_HaveWorkIffListOrBonded ==
    [][/\ IsCall(pc', "setupGpuShortRangeWork") =>
              (haveWork'[pc'.iLocality] <=>
                   (Len(plist'[pc'.iLocality].sci) > 0 \/ simWork.haveInteractions))
       /\ ~IsCall(pc', "setupGpuShortRangeWork") => haveWork' = haveWork]_vars

\* ---- C12
\* C12: a gpu_init_pairlist call ends in the fatal inconsistency error exactly
\* if an atoms-per-cluster value was recorded for the locality and the host
\* list has another one; the fatal call changes no pair list (sizes,
\* capacities, haveFreshList) and enqueues nothing; the first call for a
\* locality records the value of its list, and a call with the recorded value
\* keeps it and uploads the list.
C12_ClusterSizeChecked ==
    [][pc'.call = "gpu_init_pairlist" =>
          LET d == plist[pc'.iloc]
              h == pc'.h_plist
          IN /\ pc'.outcome = "fatal" <=> (d.na_c >= 0 /\ d.na_c # h.na_ci)
             /\ pc'.outcome = "fatal" =>
                   /\ plist' = plist
                   /\ deviceStreams' = deviceStreams
             /\ pc'.outcome = "returned" =>
                   /\ plist'[pc'.iloc].na_c = h.na_ci
                   /\ d.na_c >= 0 => plist'[pc'.iloc].na_c = d.na_c
                   /\ \E i \in 1..Len(deviceStreams'[pc'.iloc]) :
                         /\ deviceStreams'[pc'.iloc][i].kind = "H2D"
                         /\ deviceStreams'[pc'.iloc][i].buf = "sci"]_vars

C12_Witness ==
    /\ pc.call = "gpu_init_pairlist" /\ pc.outcome = "fatal"
    /\ plist[pc.iloc].na_c = c_clSize /\ pc.h_plist.na_ci # c_clSize
    /\ plist[pc.iloc].haveFreshList /\ plist[pc.iloc].nsci > 0

\* ---- C13
\* C13: after a gpu_init_pairlist call that returns, the device pair list of
\* the locality has haveFreshList set and its logical sizes are those of the
\* host list: nsci super-clusters, ncj4 cluster-pair groups, nimask masks for
\* the groups times the cluster-pair split, nexcl exclusion masks, none of
\* them above its capacity; the pair list of the other locality is unchanged.
C13_FreshListWithHostSizes ==
    [][IsCall(pc', "gpu_init_pairlist") =>
          LET d == plist'[pc'.iloc]
              h == pc'.h_plist
          IN /\ d.haveFreshList
             /\ d.nsci = Len(h.sci) /\ d.sci = h.sci
             /\ d.ncj4 = h.cj4
             /\ d.nimask = h.cj4 * c_nbnxnGpuClusterpairSplit
             /\ d.nexcl = h.excl
             /\ d.nsci <= d.sci_nalloc /\ d.ncj4 <= d.cj4_nalloc
             /\ d.nimask <= d.imask_nalloc /\ d.nexcl <= d.excl_nalloc
             /\ \A l \in InteractionLocality \ {pc'.iloc} : plist'[l] = plist[l]]_vars

C13_Witness ==
    /\ IsCall(pc, "gpu_init_pairlist") /\ pc.iloc = NonLocal
    /\ plist[NonLocal].nsci = 0 /\ plist[NonLocal].sci_nalloc > 0
    /\ plist[Local].nsci = 2 /\ plist[Local].haveFreshList

\* ---- C14
\* a gpu_init_atomdata call reallocated: the coordinate buffer is a new
\* allocation of another size
Reallocated == atdat'.xq.nalloc # atdat.xq.nalloc

\* C14: after every gpu_init_atomdata call the atom count is the one of the
\* host atom data and does not exceed the capacity, which is the size of the
\* coordinate and force buffers; the call reallocates if and only if the new
\* atom count exceeds the capacity held before the call.
C14_CountWithinCapacity ==
    [][IsCall(pc', "gpu_init_atomdata") =>
          /\ atdat'.numAtoms = pc'.nbat.numAtoms
          /\ atdat'.numAtoms <= atdat'.numAtomsAlloc
          /\ atdat'.xq.nalloc = atdat'.numAtomsAlloc
          /\ atdat'.f.nalloc = atdat'.numAtomsAlloc
          /\ Reallocated <=> pc'.nbat.numAtoms > atdat.numAtomsAlloc]_vars

C14_Witness ==
    /\ IsCall(pc, "gpu_init_atomdata")
    /\ pc.nbat.numAtoms = atdat.numAtomsAlloc
    /\ atdat.numAtomsAlloc = over_alloc_small(3)

\* ---- C15
\* C15: no step lowers the allocated atom capacity, and a gpu_init_atomdata
\* call with an atom count at or below the capacity leaves the capacity and
\* the allocations of the coordinate, force and parameter buffers as they
\* are (the coordinate and force buffers with their contents).
C15_CapacityNeverShrinks ==
    [][/\ atdat'.numAtomsAlloc >= atdat.numAtomsAlloc
       /\ (IsCall(pc', "gpu_init_atomdata") /\ pc'.nbat.numAtoms <= atdat.numAtomsAlloc) =>
              /\ atdat'.numAtomsAlloc = atdat.numAtomsAlloc
              /\ atdat'.xq = atdat.xq
              /\ atdat'.f = atdat.f
              /\ atdat'.atomTypes.nalloc = atdat.atomTypes.nalloc
              /\ atdat'.ljComb.nalloc = atdat.ljComb.nalloc]_vars

C15_Witness ==
    /\ IsCall(pc, "gpu_init_atomdata")
    /\ pc.nbat.numAtoms = 3
    /\ atdat.numAtomsAlloc = over_alloc_small(over_alloc_small(5) + 1)

\* ---- C16
\* the per-atom parameter buffer the kernel type reads
ParameterBuffer(ad) == IF useLjCombRule(nbparam.vdwType) THEN ad.ljComb ELSE ad.atomTypes

\* C16: after every gpu_init_atomdata call, whatever the sequence of atom
\* counts and whether or not the call reallocated, the parameter buffer of the
\* kernel type (LJ combination parameters or atom types) holds the uploaded
\* parameters of the host atom data for every atom below the atom count, and
\* no such entry is uninitialized memory.
C16_ParametersUploaded ==
    IsCall(pc, "gpu_init_atomdata") =>
        /\ HoldsHostData(ParameterBuffer(atdat), pc.nbat, 0, atdat.numAtoms)
        /\ \A k \in DOMAIN ParameterBuffer(atdat).nz : k >= atdat.numAtoms

C16_Witness ==
    /\ IsCall(pc, "gpu_init_atomdata")
    /\ atdat.numAtoms = over_alloc_small(5) + 1
    /\ useLjCombRule(nbparam.vdwType)
    /\ atdat.ljComb.nalloc = over_alloc_small(atdat.numAtoms)

\* ---- C17
\* the zero-fills of the force buffer in the log of the last call
ForceClears == Positions(Local, LAMBDA o : o.kind = "clear" /\ o.buf = "f")

\* C17: a gpu_init_atomdata call that reallocates enqueues, on the local
\* stream, one zero-fill of the force buffer over [0, numAtomsAlloc) and
\* leaves no element of the new allocation nonzero or uninitialized; a call
\* that does not reallocate enqueues no zero-fill and leaves the force buffer
\* as it was.
C17_ForceBufferClearedOnRealloc ==
    [][IsCall(pc', "gpu_init_atomdata") =>
          IF Reallocated
          THEN /\ DOMAIN atdat'.f.nz = {}
               /\ Cardinality(ForceClears') = 1
               /\ \A i \in ForceClears' :
                     /\ deviceStreams'[Local][i].lo = 0
                     /\ deviceStreams'[Local][i].n = atdat'.f.nalloc
          ELSE /\ atdat'.f = atdat.f
               /\ ForceClears' = {}]_vars

C17_Witness ==
    /\ IsCall(pc, "gpu_init_atomdata")
    /\ Cardinality(ForceClears) = 1
    /\ atdat.f.nalloc = over_alloc_small(over_alloc_small(5) + 1)
    /\ atdat.numAtoms < atdat.f.nalloc

\* ---- C18
\* the shift-vector uploads in the log of the last call
ShiftVecUploads ==
    Positions(Local, LAMBDA o : o.by = "gpu_upload_shiftvec" /\ o.kind = "H2D"
                                /\ o.buf = "shiftVec")

CutoffScalars(nbp) ==
    [nbp EXCEPT !.elecType = "", !.coulomb_tab = 0, !.coulomb_tab_scale = 0,
                !.tables = EmptyFn]

\* C19: a gpu_pme_loadbal_update_param call on a nonbonded object that uses
\* the GPU sets the cut-off scalars of the parameter block to those of the
\* interaction constants and leaves a Coulomb table of their Ewald correction
\* table, and changes neither pair list, nor the atom data, nor the Van der
\* Waals kernel type, nor the Lennard-Jones tables; a call with a null
\* nonbonded object, or one that does not use the GPU, changes no state.
C19_LoadBalUpdatesParametersOnly ==
    [][IsCall(pc', "gpu_pme_loadbal_update_param") =>
          /\ plist' = plist
          /\ atdat' = atdat
          /\ haveWork' = haveWork
          /\ IF pc'.nbv = "gpu"
             THEN /\ CutoffScalars(nbparam') =
                         CutoffScalars(set_cutoff_parameters(nbparam, pc'.ic, ListParams))
                  /\ nbparam'.rcoulomb_sq = pc'.ic.rcoulomb * pc'.ic.rcoulomb
                  /\ nbparam'.ewald_beta = pc'.ic.ewaldcoeff_q
                  /\ nbparam'.vdwType = nbparam.vdwType
                  /\ nbparam'.coulomb_tab \in DOMAIN nbparam'.tables
                  /\ nbparam'.tables[nbparam'.coulomb_tab] = pc'.ic.coulombEwaldTables.tableF
                  /\ nbparam'.coulomb_tab_scale = pc'.ic.coulombEwaldTables.scale
                  /\ \A h \in {nbparam.nbfp, nbparam.nbfp_comb} \ {0} :
                        h \in DOMAIN nbparam'.tables /\ nbparam'.tables[h] = nbparam.tables[h]
             ELSE nbparam' = nbparam]_vars

C19_Witness ==
    /\ IsCall(pc, "gpu_pme_loadbal_update_param")
    /\ pc.nbv = "gpu"
    /\ pc.ic # InitialInteractionConst
    /\ nbparam.rcoulomb_sq = 144
    /\ plist[Local].nsci > 0
    /\ atdat.numAtoms > 0
    /\ nbparam.nbfp # 0

\* ---- C20
\* the tables allocated that are not the Lennard-Jones tables
CoulombTables(nbp) == DOMAIN nbp.tables \ {nbp.nbfp, nbp.nbfp_comb}

\* C20: at most one Coulomb table is allocated in any state, and it is the
\* one coulomb_tab refers to; after a parameter update it holds the Ewald
\* correction table and the scale of the interaction constants of that
\* update, and no other call changes the table.
C20_OneCoulombTable ==
    [][/\ Cardinality(CoulombTables(nbparam)) <= 1
       /\ Cardinality(CoulombTables(nbparam')) <= 1
       /\ CoulombTables(nbparam') \subseteq {nbparam'.coulomb_tab}
       /\ IF IsCall(pc', "gpu_pme_loadbal_update_param") /\ pc'.nbv = "gpu"
          THEN /\ CoulombTables(nbparam') = {nbparam'.coulomb_tab}
               /\ nbparam'.tables[nbparam'.coulomb_tab] = pc'.ic.coulombEwaldTables.tableF
               /\ nbparam'.coulomb_tab_scale = pc'.ic.coulombEwaldTables.scale
          ELSE /\ nbparam'.coulomb_tab = nbparam.coulomb_tab
               /\ nbparam'.coulomb_tab_scale = nbparam.coulomb_tab_scale
               /\ nbparam'.tables = nbparam.tables]_vars

\* a table that gpu_init had allocated, before the Lennard-Jones table, was
\* replaced by the table of other interaction constants
C20_Witness ==
    /\ IsCall(pc, "gpu_pme_loadbal_update_param")
    /\ pc.nbv = "gpu"
    /\ pc.ic # InitialInteractionConst
    /\ nbparam.nbfp # 0
    /\ nbparam.coulomb_tab # 0
    /\ nbparam.coulomb_tab < nbparam.nbfp
    /\ nbparam.tables[nbparam.coulomb_tab] = pc.ic.coulombEwaldTables.tableF
    /\ nbparam.tables[nbparam.coulomb_tab] # InitialInteractionConst.coulombEwaldTables.tableF

\* ---- C21
\* the device buffers of the atom data that are allocated
AtomdataBuffers ==
    {b \in {"xq", "f", "eLJ", "eElec", "fShift", "shiftVec", "ljComb", "atomTypes"} :
        atdat[b].nalloc >= 0}

\* the device buffers of the pair lists that are allocated
PairlistBuffers ==
    {<<l, b>> \in InteractionLocality
                  \X {"sci_nalloc", "cj4_nalloc", "imask_nalloc", "excl_nalloc"} :
        plist[l][b] >= 0}

\* the host-pinned staging arrays that are allocated
StagingArrays == DOMAIN nbst

\* C21: after gpu_free on the handle of gpu_init, whatever calls of
\* gpu_pme_loadbal_update_param, gpu_init_pairlist and gpu_init_atomdata came
\* in between and whatever electrostatics kernel type is selected, no device
\* buffer of the atom data or of a pair list, no lookup table and no
\* host-pinned staging array is left allocated.
C21_FreeReleasesEverything ==
    (IsCall(pc, "gpu_free") /\ pc.nb # "null") =>
        /\ AtomdataBuffers = {}
        /\ PairlistBuffers = {}
        /\ StagingArrays = {}
        /\ DOMAIN nbparam.tables = {}

\* ---- C22
\* C22: gpu_free with a null handle returns and changes nothing: the atom
\* data, the parameters with their tables, the pair lists, the staging
\* arrays, the work flags and the streams are as before the call, also when
\* it is called again or after the handle was freed.
C22_FreeOfNullIsNoOp ==
    [][(pc'.call = "gpu_free" /\ pc'.nb = "null") =>
          /\ pc'.outcome = "returned"
          /\ atdat' = atdat
          /\ nbparam' = nbparam
          /\ plist' = plist
          /\ nbst' = nbst
          /\ haveWork' = haveWork
          /\ deviceStreams' = [l \in InteractionLocality |-> << >>]]_vars

C22_Witness ==
    /\ IsCall(pc, "gpu_free")
    /\ pc.nb = "null"
    /\ HandleIsLive
    /\ atdat.numAtoms > 0
    /\ plist[Local].nsci > 0
    /\ nbparam.coulomb_tab \in DOMAIN nbparam.tables
    /\ StagingArrays # {}

\* ---- C23
\* the electrostatics kernel types
ElecTypes == {"Cut", "RF", "EwaldTab", "EwaldTabTwin", "EwaldAna", "EwaldAnaTwin"}

\* both Ewald overrides are set
OverridesConflict(env) == env.GMX_GPU_NB_ANA_EWALD /\ env.GMX_GPU_NB_TAB_EWALD

\* C23: a call of the Ewald kernel picker with both GMX_GPU_NB_ANA_EWALD and
\* GMX_GPU_NB_TAB_EWALD set ends in a fatal error and gives no kernel type,
\* with equal and with different cut-offs, with and without
\* GMX_GPU_NB_EWALD_TWINCUT; so does the electrostatics picker for the Ewald
\* types, which calls it.
C23_ConflictingOverridesAreFatal ==
    /\ (pc.call = "nbnxn_gpu_pick_ewald_kernel_type" /\ OverridesConflict(pc.arg)) =>
           (pc.outcome = "fatal" /\ pc.result \notin ElecTypes)
    /\ (/\ pc.call = "nbnxmGpuPickElectrostaticsKernelType"
        /\ pc.ic.eeltype \in {"Pme", "Ewald"}
        /\ OverridesConflict(pc.arg)) =>
           (pc.outcome = "fatal" /\ pc.result \notin ElecTypes)

C23_Witness ==
    /\ pc.call = "nbnxn_gpu_pick_ewald_kernel_type"
    /\ OverridesConflict(pc.arg)
    /\ pc.arg.GMX_GPU_NB_EWALD_TWINCUT
    /\ pc.ic.rcoulomb # pc.ic.rvdw
    /\ pc.outcome = "fatal"

SupportedCombinationRules == {"None", "Geometric", "LorentzBerthelot"}

\* the settings that have a kernel variant: a known electrostatics type, a
\* supported combination rule, and plain cut-off VdW with one of the four
\* modifiers or LJ-PME with the long-range rule that matches the short-range
\* one
HasKernelVariant(ic, rule) ==
    /\ ic.eeltype = "Cut" \/ EEL_RF(ic.eeltype) \/ EEL_PME(ic.eeltype) \/ ic.eeltype = "Ewald"
    /\ rule \in SupportedCombinationRules
    /\ \/ /\ ic.vdwtype = "Cut"
          /\ ic.vdw_modifier \in {"None", "PotShift", "ForceSwitch", "PotSwitch"}
       \/ /\ ic.vdwtype = "Pme"
          /\ (ic.ljpme_comb_rule = "Geom") <=> (rule = "Geometric")
          /\ (ic.ljpme_comb_rule # "Geom") <=> (rule = "LorentzBerthelot")

VdwTypes == {"Cut", "CutCombGeom", "CutCombLB", "FSwitch", "PSwitch", "EwaldGeom", "EwaldLB"}

\* the settings gpu_init accepts: as HasKernelVariant, but with the
\* ForceSwitch and PotSwitch modifiers the combination rule may be any
AcceptedByInit(ic, rule, env) ==
    /\ ic.eeltype = "Cut" \/ EEL_RF(ic.eeltype) \/ EEL_PME(ic.eeltype) \/ ic.eeltype = "Ewald"
    /\ (EEL_PME(ic.eeltype) \/ ic.eeltype = "Ewald") => ~OverridesConflict(env)
    /\ \/ /\ ic.vdwtype = "Cut"
          /\ ic.vdw_modifier \in {"None", "PotShift"}
          /\ rule \in SupportedCombinationRules
       \/ /\ ic.vdwtype = "Cut"
          /\ ic.vdw_modifier \in {"ForceSwitch", "PotSwitch"}
       \/ /\ ic.vdwtype = "Pme"
          /\ ic.ljpme_comb_rule = "Geom"
          /\ rule = "Geometric"
       \/ /\ ic.vdwtype = "Pme"
          /\ ic.ljpme_comb_rule # "Geom"
          /\ rule = "LorentzBerthelot"

VdwTypeOf(vdwtype, modifier, lr, rule) ==
    CASE vdwtype = "Cut" /\ modifier \in {"None", "PotShift"} /\ rule = "None" -> "Cut"
      [] vdwtype = "Cut" /\ modifier \in {"None", "PotShift"} /\ rule = "Geometric" ->
             "CutCombGeom"
      [] vdwtype = "Cut" /\ modifier \in {"None", "PotShift"}
                         /\ rule = "LorentzBerthelot" -> "CutCombLB"
      [] vdwtype = "Cut" /\ modifier = "ForceSwitch" -> "FSwitch"
      [] vdwtype = "Cut" /\ modifier = "PotSwitch" -> "PSwitch"
      [] vdwtype = "Pme" /\ lr = "Geom" -> "EwaldGeom"
      [] vdwtype = "Pme" /\ lr # "Geom" -> "EwaldLB"

\* C26: for every supported input the VdW kernel picker returns the type
\* that the VdW type, the modifier and the combination rules determine: Cut,
\* CutCombGeom or CutCombLB for plain cut-off with modifier None or PotShift
\* and rule None, Geometric or LorentzBerthelot, FSwitch for ForceSwitch,
\* PSwitch for PotSwitch, EwaldGeom for LJ-PME with the geometric long-range
\* rule and EwaldLB for LJ-PME otherwise.
C26_VdwTypeIsDetermined ==
    (pc.call = "nbnxmGpuPickVdwKernelType" /\ HasKernelVariant(pc.ic, pc.arg)) =>
        /\ pc.outcome = "returned"
        /\ pc.result = VdwTypeOf(pc.ic.vdwtype, pc.ic.vdw_modifier,
                                 pc.ic.ljpme_comb_rule, pc.arg)

C26_Witness ==
    /\ IsCall(pc, "nbnxmGpuPickVdwKernelType")
    /\ pc.ic.vdwtype = "Pme"
    /\ pc.ic.ljpme_comb_rule = "LB"
    /\ pc.arg = "LorentzBerthelot"
    /\ pc.result = "EwaldLB"


\* ------------------------------------------------------------ the kernel
\* the global buffers a kernel launch accumulates into
KernelOutputs(ad) == <<ad.f, ad.fShift, ad.eLJ, ad.eElec>>
\* a step of the kernel specification is a launch
IsLaunch == step' = step + 1 /\ pc'.call = "nbnxn_kernel"
\* the pair list has no entry: no super-cluster entry, or only super-cluster
\* entries with an empty range of cluster pair groups
HasZeroEntries(pl) == \A bidx \in 1..Len(pl.sci) : pl.sci[bidx].cj4_length = 0

\* C27: for any pair list with zero entries (no super-cluster entries, or
\* super-cluster entries whose cluster-pair-group range is empty), a kernel
\* launch of any variant leaves the force, shift-force and energy buffers
\* unchanged from their pre-launch state.
C27_EmptyListLeavesOutputsUnchanged ==
    [][IsLaunch /\ HasZeroEntries(plist[Local])
           => KernelOutputs(atdat') = KernelOutputs(atdat)]_vars

\* the sum of the forces of all atoms
ForceSum(ad) == SumOver(ad.f.nz, DOMAIN ad.f.nz)
\* what a launch adds to the force of atom a
ForceAdded(a) == BufRead(atdat'.f, a) - BufRead(atdat.f, a)
\* the atoms that are no fillers
RealAtoms(ad) == {a \in DOMAIN ad.xq.nz : ad.xq.nz[a].w # 0}
\* the two-atom system: atom 0, the i atom, and atom 8, the j atom
IsTwoAtomSystem(ad) == RealAtoms(ad) = {0, AtomOf(1, 0)}

\* C28: every evaluated atom pair adds its force to the j atom and takes the
\* same force from the i atom: what a launch adds to the force buffer sums
\* to zero over all atoms, and in a two-atom system the force added on atom i
\* is the exact negation of the force added on atom j, no other atom getting
\* any.
C28_ForcesAddedSumToZero ==
    [][IsLaunch =>
          /\ ForceSum(atdat') = ForceSum(atdat)
          /\ IsTwoAtomSystem(atdat) =>
                /\ ForceAdded(0) = -ForceAdded(AtomOf(1, 0))
                /\ \A a \in DOMAIN atdat.xq.nz \ {0, AtomOf(1, 0)} : ForceAdded(a) = 0]_vars

\* a launch on a two-atom system has added a force to atom 8 and its negation
\* to atom 0
C28_Witness ==
    /\ pc.call = "nbnxn_kernel"
    /\ step = 1
    /\ IsTwoAtomSystem(atdat)
    /\ BufRead(atdat.f, AtomOf(1, 0)) # 0
    /\ BufRead(atdat.f, 0) = -BufRead(atdat.f, AtomOf(1, 0))

\* The pairs of atoms a pair list holds: for every super-cluster entry, every
\* cluster pair with its bit set in the interaction mask, and every i atom and
\* j atom of the two clusters, the pair with its shift, its squared distance
\* and whether its bit in the exclusion word is clear.
ListedPairsOf(ad, pl, nb_sci) ==
    {[shift |-> nb_sci.shift,
      excluded |-> LET wexcl == pl.excl[pl.cj4[p[1] + 1].excl_ind + 1]
                       tidx == t[2] * c_clSize + t[1]
                   IN tidx \in DOMAIN wexcl /\ MaskBit(p[2], p[3]) \in wexcl[tidx],
      ai |-> AtomOf(nb_sci.sci * c_nbnxnGpuNumClusterPerSupercluster + p[3], t[1]),
      aj |-> AtomOf(pl.cj4[p[1] + 1].cj[p[2] + 1], t[2]),
      r2 |-> LET xi == ad.xq.nz[AtomOf(nb_sci.sci * c_nbnxnGpuNumClusterPerSupercluster
                                           + p[3], t[1])].x
                 xj == ad.xq.nz[AtomOf(pl.cj4[p[1] + 1].cj[p[2] + 1], t[2])].x
                 d == xj - xi - BufRead(ad.shiftVec, nb_sci.shift)
             IN d * d] :
        p \in nbnxn_kernel_clusterPairs(pl, nb_sci), t \in ThreadIdx \X ThreadIdx}
ListedPairs(ad, pl) == UNION {ListedPairsOf(ad, pl, pl.sci[bidx]) : bidx \in 1..Len(pl.sci)}
\* the pairs of the list within the Coulomb cut-off
PairsInRange(ad, pl, nbp) == {p \in ListedPairs(ad, pl) : p.r2 < nbp.rcoulomb_sq}

\* the self term a launch adds to the electrostatic energy, none of it the
\* contribution of a pair
SelfEnergyAdded ==
    LET pl == plist[Local]
        selfEnergy == [bidx \in 1..Len(pl.sci) |->
                          SumOver([oob \in {0} |->
                                      nbnxn_kernel_selfEnergy(pc'.flavor, atdat, nbparam, pl,
                                                              pl.sci[bidx], oob)], {0})]
    IN SumOver(selfEnergy, DOMAIN selfEnergy)
\* the energies a launch adds, summed over the slots of the energy buffers
EnergySum(b) == SumOver(b.nz, DOMAIN b.nz)

\* the pair of atom 0 and atom 8 is in the list, with no shift, not excluded,
\* and no other pair of charged atoms is
OnlyPairIsIncluded(ad, pl) ==
    /\ IsTwoAtomSystem(ad)
    /\ Len(pl.sci) = 1
    /\ pl.sci[1].shift = c_centralShiftIndex
    /\ \E p \in ListedPairs(ad, pl) : p.ai = 0 /\ p.aj = AtomOf(1, 0) /\ ~p.excluded

\* C29: an atom pair contributes force or energy only if its squared distance
\* is strictly less than the squared Coulomb cut-off.  A launch changes the
\* force of an atom only if the list holds a pair of the atom within the
\* cut-off, and with no pair of the list within the cut-off it adds nothing to
\* the LJ energy and nothing but the self term to the electrostatic energy; a
\* pair whose squared distance equals the cut-off exactly contributes nothing;
\* a non-excluded pair just below the cut-off is evaluated: it adds a force.
C29_CutoffIsStrict ==
    [][IsLaunch =>
          LET pl == plist[Local]
              near == PairsInRange(atdat, pl, nbparam)
          IN /\ \A a \in DOMAIN atdat'.f.nz \cup DOMAIN atdat.f.nz :
                   ForceAdded(a) # 0 => \E p \in near : a \in {p.ai, p.aj}
             /\ near = {} =>
                   /\ atdat'.f = atdat.f
                   /\ atdat'.fShift = atdat.fShift
                   /\ atdat'.eLJ = atdat.eLJ
                   /\ ReadsPastEnd(pl) \/
                         EnergySum(atdat'.eElec) - EnergySum(atdat.eElec) = SelfEnergyAdded
             /\ OnlyPairIsIncluded(atdat, pl) =>
                   LET r2 == (atdat.xq.nz[AtomOf(1, 0)].x) * (atdat.xq.nz[AtomOf(1, 0)].x)
                   IN /\ r2 = nbparam.rcoulomb_sq =>
                            ForceAdded(0) = 0 /\ ForceAdded(AtomOf(1, 0)) = 0
                      /\ r2 < nbparam.rcoulomb_sq => ForceAdded(AtomOf(1, 0)) # 0]_vars

\* the kernel ran on a list with one included pair at the cut-off exactly and
\* left the forces at zero
C29_Witness ==
    /\ pc.call = "nbnxn_kernel"
    /\ step = 1
    /\ OnlyPairIsIncluded(atdat, plist[Local])
    /\ (atdat.xq.nz[AtomOf(1, 0)].x) * (atdat.xq.nz[AtomOf(1, 0)].x) = nbparam.rcoulomb_sq
    /\ DOMAIN atdat.f.nz = {}

\* the pair of atom 0 and atom 8 is in the list, within the Coulomb cut-off,
\* its exclusion bit clear, and the two are the only atoms with a charge
ExcludedPairInRange(ad, pl, nbp) ==
    {p \in PairsInRange(ad, pl, nbp) : p.ai = 0 /\ p.aj = AtomOf(1, 0) /\ p.excluded}
OnlyPairIsExcluded(ad, pl, nbp) ==
    /\ IsTwoAtomSystem(ad)
    /\ Cardinality(ExcludedPairInRange(ad, pl, nbp)) = 1
\* The Ewald or reaction-field correction of the force between two atoms with
\* charges qi and qj at squared distance r2, divided by their distance: what is
\* left of the Coulomb force without the direct 1/r term.
ExclusionCorrectionF(v, nbp, r2) ==
    LET inv_r == frsqrt(r2)
        beta == nbp.ewald_beta
    IN CASE v.EL = "EL_CUTOFF" -> 0
         [] v.EL = "EL_RF" -> -nbp.two_k_rf
         [] v.EL = "EL_EWALD_ANA" -> pmecorrF(beta * beta * r2) * beta * beta * beta
         [] OTHER -> -interpolate_coulomb_force_r(nbp, r2 * inv_r) * inv_r
\* the correction of its energy
ExclusionCorrectionE(v, nbp, r2) ==
    LET inv_r == frsqrt(r2)
    IN CASE v.EL = "EL_CUTOFF" -> -nbp.c_rf
         [] v.EL = "EL_RF" -> (nbp.two_k_rf * r2) \div 2 - nbp.c_rf
         [] OTHER -> -inv_r * erff(r2 * inv_r * nbp.ewald_beta)

IsDiagonalEntry(pl, nb_sci) ==
    /\ nb_sci.shift = c_centralShiftIndex
    /\ nb_sci.cj4_length > 0
    /\ pl.cj4[nb_sci.cj4_ind_start + 1].cj[1]
           = nb_sci.sci * c_nbnxnGpuNumClusterPerSupercluster
\* the self-energy contribution of one run of flavor v: the self term of every
\* diagonal super-cluster entry, summed over the threads of its block
SelfEnergyOfRun(v, ad, nbp, pl) ==
    LET perEntry == [bidx \in 1..Len(pl.sci) |->
            IF v.CALC_ENERGIES /\ EXCLUSION_FORCES(v) /\ IsDiagonalEntry(pl, pl.sci[bidx])
            THEN LET perThread == [tidxi \in ThreadIdx |->
                         nbnxn_kernel_selfTerm(v, ad, nbp, pl.sci[bidx], tidxi)]
                 IN c_clSize * SumOver(perThread, ThreadIdx)
            ELSE 0]
    IN SumOver(perEntry, DOMAIN perEntry)
\* the pairs of distinct atoms of the list within the Coulomb cut-off
DistinctPairsInRange(ad, pl, nbp) == {p \in PairsInRange(ad, pl, nbp) : p.ai # p.aj}
\* every super-cluster entry of the list has a cluster pair group
HasNoEmptyEntry(pl) == \A bidx \in 1..Len(pl.sci) : pl.sci[bidx].cj4_length > 0

\* C31: the self-energy term is additive.  With no pair of atoms in range, an
\* energy launch adds to the electrostatic energy the self term of the
\* diagonal super-cluster entries (central shift, first j cluster equal to the
\* entry's own first cluster) and nothing for an entry that is not on the
\* central shift or not diagonal; a second launch without a reset of the
\* accumulators leaves twice the contribution of the first.
C31_SelfEnergyIsAdditive ==
    [][IsLaunch /\ pc'.flavor.CALC_ENERGIES
          /\ DistinctPairsInRange(atdat, plist[Local], nbparam) = {} =>
          /\ EnergySum(atdat'.eElec) - EnergySum(atdat.eElec)
                 = SelfEnergyOfRun(pc'.flavor, atdat, nbparam, plist[Local])
          /\ step = 1 => EnergySum(atdat'.eElec) = 2 * EnergySum(atdat.eElec)]_vars

\* the same, for the pair lists whose entries all have a cluster pair group
C31_SelfEnergyIsAdditiveWithoutEmptyEntries ==
    [][IsLaunch /\ pc'.flavor.CALC_ENERGIES /\ HasNoEmptyEntry(plist[Local])
          /\ DistinctPairsInRange(atdat, plist[Local], nbparam) = {} =>
          /\ EnergySum(atdat'.eElec) - EnergySum(atdat.eElec)
                 = SelfEnergyOfRun(pc'.flavor, atdat, nbparam, plist[Local])
          /\ step = 1 => EnergySum(atdat'.eElec) = 2 * EnergySum(atdat.eElec)]_vars

\* two energy launches on a diagonal entry have left twice the self term
C31_Witness ==
    /\ pc.call = "nbnxn_kernel"
    /\ step = 2
    /\ HasNoEmptyEntry(plist[Local])
    /\ DistinctPairsInRange(atdat, plist[Local], nbparam) = {}
    /\ SelfEnergyOfRun(pc.flavor, atdat, nbparam, plist[Local]) # 0
    /\ EnergySum(atdat.eElec) = 2 * SelfEnergyOfRun(pc.flavor, atdat, nbparam, plist[Local])

\* the super-cluster entries whose range holds cluster pair group j4 (from 0)
EntriesOfGroup(pl, j4) ==
    {bidx \in 1..Len(pl.sci) :
        /\ pl.sci[bidx].cj4_ind_start <= j4
        /\ j4 < pl.sci[bidx].cj4_ind_start + pl.sci[bidx].cj4_length}
\* an atom of i cluster i of the entry and an atom of j cluster jm of group j4
\* are closer than the outer cut-off of the list
ClusterPairInListRange(ad, pl, nbp, nb_sci, j4, jm, i) ==
    \E tidxi \in ThreadIdx, tidxj \in ThreadIdx :
        LET ci == nb_sci.sci * c_nbnxnGpuNumClusterPerSupercluster + i
            xi == BufRead(ad.xq, AtomOf(ci, tidxi)).x
            xj == BufRead(ad.xq, AtomOf(pl.cj4[j4 + 1].cj[jm + 1], tidxj)).x
            d == xj - xi - BufRead(ad.shiftVec, nb_sci.shift)
        IN d * d < nbp.rlistOuter_sq
\* the bits a mask can hold
MaskBits ==
    {MaskBit(jm, i) : jm \in 0..(c_nbnxnGpuJgroupSize - 1),
                      i \in 0..(c_nbnxnGpuNumClusterPerSupercluster - 1)}

\* C32: in the pruning flavors the interaction mask written back for a cluster
\* pair group is a subset of the mask read: a bit is cleared exactly when it
\* was set and no atom pair of its cluster pair lies within the outer list
\* cut-off; no bit is ever set; the groups keep their j clusters and exclusion
\* indices; the flavors without pruning never write the mask.
C32_PrunedMaskIsSubset ==
    [][IsLaunch =>
          LET pl == plist[Local]
              pl2 == plist'[Local]
          IN /\ Len(pl2.cj4) = Len(pl.cj4)
             /\ pl2.sci = pl.sci /\ pl2.excl = pl.excl
             /\ ~pc'.flavor.PRUNE_NBL => pl2.cj4 = pl.cj4
             /\ \A j4 \in 0..(Len(pl.cj4) - 1) :
                   /\ pl2.cj4[j4 + 1].cj = pl.cj4[j4 + 1].cj
                   /\ pl2.cj4[j4 + 1].excl_ind = pl.cj4[j4 + 1].excl_ind
                   /\ pl2.cj4[j4 + 1].imask \subseteq pl.cj4[j4 + 1].imask
                   /\ pc'.flavor.PRUNE_NBL =>
                         \A jm \in 0..(c_nbnxnGpuJgroupSize - 1),
                            i \in 0..(c_nbnxnGpuNumClusterPerSupercluster - 1) :
                            MaskBit(jm, i) \in pl.cj4[j4 + 1].imask =>
                               (MaskBit(jm, i) \notin pl2.cj4[j4 + 1].imask
                                   <=> \E bidx \in EntriesOfGroup(pl, j4) :
                                          ~ClusterPairInListRange(atdat, pl, nbparam,
                                                                  pl.sci[bidx], j4, jm, i))]_vars

\* a pruning launch has cleared the bit of cluster 0 with cluster 1, whose
\* atoms are out of range of the list cut-off, in the list that pairs them alone
C32_Witness ==
    /\ pc.call = "nbnxn_kernel"
    /\ step = 1
    /\ pc.flavor.PRUNE_NBL
    /\ Len(plist[Local].cj4) = 1
    /\ plist[Local].sci[1].shift = c_centralShiftIndex
    /\ plist[Local].cj4[1].cj = <<1, 2, 3, 4>>
    /\ plist[Local].cj4[1].imask = {}
    /\ ~ClusterPairInListRange(atdat, plist[Local], nbparam, plist[Local].sci[1], 0, 0, 0)

\* a pruning launch has kept the bit of a cluster pair with atoms in range
C32_WitnessKept ==
    /\ pc.call = "nbnxn_kernel"
    /\ step = 1
    /\ pc.flavor.PRUNE_NBL
    /\ \E j4 \in 0..(Len(plist[Local].cj4) - 1) :
          /\ MaskBit(1, 0) \in plist[Local].cj4[j4 + 1].imask
          /\ ClusterPairInListRange(atdat, plist[Local], nbparam, plist[Local].sci[1], j4, 1, 0)

\* what the threads of the block of super-cluster entry bidx compute
ThreadsOfBlock(v, bidx) ==
    nbnxn_kernel_threads(v, atdat, nbparam, plist[Local], plist[Local].sci[bidx])
\* the collectives of a lane of the block of entry bidx in a launch of flavor v
CollectivesOf(v, bidx, tidxi, tidxj) ==
    nbnxn_kernel_collectives(v, ThreadsOfBlock(v, bidx), plist[Local],
                             plist[Local].sci[bidx], tidxi, tidxj)
\* the cluster pairs a sequence of collectives votes on
VotesOf(s) == {<<s[k].j4, s[k].jm, s[k].i>> : k \in {n \in DOMAIN s : s[n].op = "__nb_any"}}
\* two lanes of the block differ in the cut-off and exclusion check of a cluster pair
LanesDifferInPairCheck(v, bidx) ==
    \E r1 \in ThreadsOfBlock(v, bidx), r2 \in ThreadsOfBlock(v, bidx) :
        r1.p = r2.p /\ r1.evaluated /\ ~r2.evaluated

\* C33: every lane of a sub-group executes the same sequence of collectives.
\* In every launch and every block the sequence of any votes, j-force
\* reductions, i-force reductions and energy reductions is the same for all
\* lanes, whatever the cut-off and exclusion check of the lanes gives; the
\* pruning flavors vote once on every cluster pair with its bit set and the
\* other flavors never.
C33_LanesExecuteSameCollectives ==
    [][IsLaunch =>
          \A bidx \in 1..Len(plist[Local].sci) :
             LET v == pc'.flavor
                 first == CollectivesOf(v, bidx, 0, 0)
             IN /\ \A tidxi \in ThreadIdx, tidxj \in ThreadIdx :
                      CollectivesOf(v, bidx, tidxi, tidxj) = first
                /\ VotesOf(first)
                       = IF v.PRUNE_NBL
                         THEN nbnxn_kernel_clusterPairs(plist[Local], plist[Local].sci[bidx])
                         ELSE {}]_vars

\* a launch has run a block whose lanes differ in the cut-off and exclusion
\* check of a cluster pair the block votes on, and the lanes have the same
\* collectives
C33_Witness ==
    /\ pc.call = "nbnxn_kernel"
    /\ step = 1
    /\ \E bidx \in 1..Len(plist[Local].sci) :
          LET v == [pc.flavor EXCEPT !.PRUNE_NBL = TRUE]
          IN /\ LanesDifferInPairCheck(v, bidx)
             /\ VotesOf(CollectivesOf(v, bidx, 0, 0)) # {}
             /\ \A tidxi \in ThreadIdx, tidxj \in ThreadIdx :
                   CollectivesOf(v, bidx, tidxi, tidxj) = CollectivesOf(v, bidx, 0, 0)

\* what a launch adds to element k of the shift-force buffer
FShiftAdded(k) == BufRead(atdat'.fShift, k) - BufRead(atdat.fShift, k)
\* the element of the shift-force buffer the block of entry bidx (from 1) adds to
FShiftSlot(pl, bidx) == pl.sci[bidx].shift + shift_index_base(bidx - 1)
\* the atoms of the i clusters of entry bidx with a bit set in a mask of its range
IAtomsOf(pl, bidx) ==
    {AtomOf(pl.sci[bidx].sci * c_nbnxnGpuNumClusterPerSupercluster + p[3], t) :
        p \in nbnxn_kernel_clusterPairs(pl, pl.sci[bidx]), t \in ThreadIdx}
\* the atoms of the j clusters of these cluster pairs
JAtomsOf(pl, bidx) ==
    {AtomOf(pl.cj4[p[1] + 1].cj[p[2] + 1], t) :
        p \in nbnxn_kernel_clusterPairs(pl, pl.sci[bidx]), t \in ThreadIdx}
\* the entries of the list on a shifted image
ShiftedEntries(pl) == {bidx \in 1..Len(pl.sci) : pl.sci[bidx].shift # c_centralShiftIndex}

\* C34: a super-cluster entry on the central shift never adds to the
\* shift-force buffer, even when the shift forces are requested; an entry on
\* another shift adds, when requested, the sum of the forces of its i clusters
\* to the element of its own shift index, and to no other.  An element of the
\* buffer changes only on request and only if it is the element of a shifted
\* entry, at that entry's shift index; the element of a shifted entry gets what
\* the launch adds to the forces of the entry's i atoms (stated for the entries
\* whose i atoms are not j atoms of the list as well).
C34_ShiftForceSkipsCentralShift ==
    [][IsLaunch =>
          LET pl == plist[Local]
          IN /\ \A k \in DOMAIN atdat'.fShift.nz \cup DOMAIN atdat.fShift.nz :
                   FShiftAdded(k) # 0 =>
                      /\ pc'.bCalcFshift
                      /\ \E bidx \in ShiftedEntries(pl) :
                            /\ k = FShiftSlot(pl, bidx)
                            /\ k % c_numShiftVectors = pl.sci[bidx].shift
             /\ ~pc'.bCalcFshift \/ ShiftedEntries(pl) = {} => atdat'.fShift = atdat.fShift
             /\ pc'.bCalcFshift =>
                   \A bidx \in ShiftedEntries(pl) :
                      (\A b2 \in 1..Len(pl.sci) : IAtomsOf(pl, bidx) \cap JAtomsOf(pl, b2) = {})
                         => FShiftAdded(FShiftSlot(pl, bidx))
                               = SumOver([a \in IAtomsOf(pl, bidx) |-> ForceAdded(a)],
                                         IAtomsOf(pl, bidx))]_vars

\* a launch with the shift forces requested has added the force of the i atom
\* of a shifted entry to the element of its shift index
C34_Witness ==
    /\ pc.call = "nbnxn_kernel"
    /\ step = 1
    /\ pc.bCalcFshift
    /\ Len(plist[Local].sci) = 1
    /\ plist[Local].sci[1].shift = c_centralShiftIndex + 1
    /\ BufRead(atdat.f, 0) # 0
    /\ DOMAIN atdat.fShift.nz = {c_centralShiftIndex + 1 + shift_index_base(0)}
    /\ BufRead(atdat.fShift, c_centralShiftIndex + 1 + shift_index_base(0)) = BufRead(atdat.f, 0)

\* a launch with the shift forces requested has added forces for an entry on
\* the central shift and left the shift-force buffer as it was
C34_WitnessCentral ==
    /\ pc.call = "nbnxn_kernel"
    /\ step = 1
    /\ pc.bCalcFshift
    /\ Len(plist[Local].sci) = 1
    /\ plist[Local].sci[1].shift = c_centralShiftIndex
    /\ BufRead(atdat.f, 0) # 0
    /\ DOMAIN atdat.fShift.nz = {}


\* ---- C35
\* the positions of the marks of nonlocal_done in a stream's log
MarksOfNonlocalDone(q) ==
    {i \in DOMAIN q : q[i].kind = "mark" /\ q[i].buf = "nonlocal_done"}
\* the positions a step of the program appended to the log of loc
Appended(loc) == (Len(deviceStreams[loc]) + 1)..Len(deviceStreams'[loc])
\* the copy-back of iloc runs in this step of the program
IsCpybackOf(iloc) == pc = PcOf("cpy", iloc) /\ pc' # pc

\* C35: a non-local copy-back with work marks nonlocal_done on the non-local
\* stream exactly once, as the last operation it enqueues and hence after the
\* non-local force download, which is enqueued exactly when useGpuFBufferOps
\* is off; a local copy-back and a non-local copy-back without work enqueue
\* no mark of nonlocal_done and leave the event unmarked if it was.
C35_NonlocalDoneMarkedOnceAfterDownload ==
    [][ /\ (IsCpybackOf(NonLocal) /\ haveGpuShortRangeWork(NonLocal)) =>
              LET q == deviceStreams'[NonLocal]
                  new == Appended(NonLocal)
                  marks == new \cap MarksOfNonlocalDone(q)
                  downloads == {i \in new : q[i].kind = "D2H" /\ q[i].buf = "f"}
              IN /\ Cardinality(marks) = 1
                 /\ Len(q) \in marks
                 /\ q[Len(q)].by = "gpu_launch_cpyback"
                 /\ (downloads # {}) <=> ~stepWork.useGpuFBufferOps
                 /\ \A i \in downloads : i < Len(q) /\ HappensBefore(q[i], q[Len(q)])
                 /\ Appended(Local) = {}
                 /\ nonlocal_done'.marked
        /\ (IsCpybackOf(NonLocal) /\ ~haveGpuShortRangeWork(NonLocal)) =>
              /\ deviceStreams' = deviceStreams
              /\ nonlocal_done' = nonlocal_done
        /\ IsCpybackOf(Local) =>
              /\ \A loc \in InteractionLocality :
                    Appended(loc) \cap MarksOfNonlocalDone(deviceStreams'[loc]) = {}
              /\ nonlocal_done'.marked => nonlocal_done.marked
        /\ ~(IsCpybackOf(NonLocal) /\ haveGpuShortRangeWork(NonLocal)) =>
              \A loc \in InteractionLocality :
                  Cardinality(MarksOfNonlocalDone(deviceStreams'[loc]))
                      <= Cardinality(MarksOfNonlocalDone(deviceStreams[loc]))
      ]_vars

\* a non-local copy-back with work has downloaded the forces and then marked
\* the event
C35_Witness ==
    /\ pc = "cpyL" /\ bUseTwoStreams /\ haveWork[NonLocal] /\ ~stepWork.useGpuFBufferOps
    /\ nonlocal_done.marked
    /\ \E m \in OpsOn(NonLocal), d \in OpsOn(NonLocal) :
          /\ IsStepOp(m, "gpu_launch_cpyback", "mark", "nonlocal_done")
          /\ IsStepOp(d, "gpu_launch_cpyback", "D2H", "f")
          /\ HappensBefore(d, m)

\* a non-local copy-back with work and the download suppressed has marked the
\* event
C35_WitnessSuppressed ==
    /\ pc = "cpyL" /\ bUseTwoStreams /\ haveWork[NonLocal] /\ stepWork.useGpuFBufferOps
    /\ nonlocal_done.marked
    /\ \E m \in OpsOn(NonLocal) :
          IsStepOp(m, "gpu_launch_cpyback", "mark", "nonlocal_done")
    /\ ~\E d \in OpsOn(NonLocal) : IsStepOp(d, "gpu_launch_cpyback", "D2H", "f")


\* ---- C36
\* the positions in the log of loc of this step's operations of a kind on
\* the nonlocal_done event
NonlocalDoneOps(loc, kind) ==
    Positions(loc, LAMBDA o : IsStepOp(o, "gpu_launch_cpyback", kind, "nonlocal_done"))

\* C36: with the copy-backs of a step called non-local first and local
\* second, bNonLocalStreamDoneMarked is false when a non-local copy-back is
\* entered, is true exactly from a non-local copy-back with work until the
\* local copy-back that follows, where it agrees with the state of the
\* event; the mark of a step is consumed by exactly one wait, enqueued on the
\* local stream by the local copy-back and ordered after the mark, and without
\* a mark, as after a non-local copy-back without work, no wait is enqueued.
C36_MarkedFlagPairsMarkWithWait ==
    LET marks == NonlocalDoneOps(NonLocal, "mark")
        waits == NonlocalDoneOps(Local, "wait")
    IN /\ pc = PcOf("cpy", NonLocal) => ~bNonLocalStreamDoneMarked
       /\ bNonLocalStreamDoneMarked <=> (pc = PcOf("cpy", Local) /\ marks # {})
       /\ bNonLocalStreamDoneMarked = nonlocal_done.marked
       /\ Cardinality(marks) <= 1
       /\ NonlocalDoneOps(Local, "mark") = {} /\ NonlocalDoneOps(NonLocal, "wait") = {}
       /\ IF pc \in {"clear", "begin"}
          THEN /\ Cardinality(waits) = Cardinality(marks)
               /\ \A m \in marks, w \in waits :
                     HappensBefore(deviceStreams[NonLocal][m], deviceStreams[Local][w])
          ELSE waits = {}

\* in the last step a local copy-back has consumed the mark of the non-local
\* copy-back of its step
C36_Witness ==
    /\ pc = "clear" /\ step = MaxSteps /\ ~bNonLocalStreamDoneMarked
    /\ \E m \in NonlocalDoneOps(NonLocal, "mark"), w \in NonlocalDoneOps(Local, "wait") :
          HappensBefore(deviceStreams[NonLocal][m], deviceStreams[Local][w])

\* a local copy-back after a non-local copy-back without work has run
C36_WitnessNoWork ==
    /\ pc = "clear" /\ bUseTwoStreams /\ ~haveWork[NonLocal]
    /\ \E d \in OpsOn(Local) : IsStepOp(d, "gpu_launch_cpyback", "D2H", "f")
    /\ NonlocalDoneOps(Local, "wait") = {}


\* ---- C37
\* the positions a step of the program appended to the log of loc that hold
\* an operation of a kind on the misc_ops_and_local_H2D_done event
AppendedLocalDone(loc, kind) ==
    {i \in Appended(loc) : /\ deviceStreams'[loc][i].kind = kind
                           /\ deviceStreams'[loc][i].buf = "misc_ops_and_local_H2D_done"}
\* the latest mark of the event in the log of the local stream after the step
LatestLocalDoneMark ==
    LET q == deviceStreams'[Local]
        at == {i \in DOMAIN q : q[i].kind = "mark" /\ q[i].buf = "misc_ops_and_local_H2D_done"}
    IN q[CHOOSE i \in at : \A j \in at : j <= i]

\* C37: with two streams, the event is marked only on the local stream and
\* only when it is unmarked, is waited on only on the non-local stream and
\* only when it holds a mark, the wait being ordered after the latest mark
\* and consuming it; a mark is consumed by that wait or, in the non-local
\* coordinate upload without work, by the reset, and none is left when a step
\* ends.  With one stream the event is never marked and never waited on.
C37_LocalDoneMarksAreConsumedOnce ==
    [][ LET marks == AppendedLocalDone(Local, "mark")
            waits == AppendedLocalDone(NonLocal, "wait")
            ev == misc_ops_and_local_H2D_done
        IN /\ AppendedLocalDone(NonLocal, "mark") = {}
           /\ AppendedLocalDone(Local, "wait") = {}
           /\ Cardinality(marks) <= 1 /\ Cardinality(waits) <= 1
           /\ marks # {} => ~ev.marked
           /\ waits # {} =>
                 /\ ev.marked \/ marks # {}
                 /\ \A w \in waits : HappensBefore(LatestLocalDoneMark, deviceStreams'[NonLocal][w])
                 /\ ~ev'.marked
           /\ ev'.marked <=> \/ marks # {} /\ waits = {}
                             \/ /\ ev.marked /\ marks = {} /\ waits = {}
                                /\ ~(pc = PcOf("xq", NonLocal) /\ pc' # pc)
           /\ (pc = PcOf("xq", NonLocal) /\ pc' # pc) =>
                 /\ ev.marked
                 /\ (waits # {}) <=> haveGpuShortRangeWork(NonLocal)
           /\ pc' = "begin" => ~ev'.marked
           /\ ~bUseTwoStreams => marks = {} /\ waits = {} /\ ~ev.marked /\ ~ev'.marked
      ]_vars

\* the wait of a non-local coordinate upload with work has consumed the mark
\* of the local upload, in a step that initialized the x buffer operations
C37_Witness ==
    /\ pc = "kernNL" /\ bUseTwoStreams /\ haveWork[NonLocal]
    /\ ~misc_ops_and_local_H2D_done.marked
    /\ \E m \in OpsOn(Local), w \in OpsOn(NonLocal) :
          /\ IsStepOp(m, "gpu_copy_xq_to_gpu", "mark", "misc_ops_and_local_H2D_done")
          /\ IsStepOp(w, "gpu_copy_xq_to_gpu", "wait", "misc_ops_and_local_H2D_done")
          /\ HappensBefore(m, w)
    /\ \E m \in OpsOn(Local), w \in OpsOn(NonLocal) :
          /\ IsStepOp(m, "nbnxn_gpu_init_x_to_nbat_x", "mark", "misc_ops_and_local_H2D_done")
          /\ IsStepOp(w, "nbnxn_gpu_init_x_to_nbat_x", "wait", "misc_ops_and_local_H2D_done")
          /\ HappensBefore(m, w)

\* the reset of a non-local coordinate upload without work has consumed the
\* mark of the local upload
C37_WitnessReset ==
    /\ pc = "kernNL" /\ bUseTwoStreams /\ ~haveWork[NonLocal]
    /\ ~misc_ops_and_local_H2D_done.marked
    /\ \E m \in OpsOn(Local) :
          IsStepOp(m, "gpu_copy_xq_to_gpu", "mark", "misc_ops_and_local_H2D_done")
    /\ ~\E w \in OpsOn(NonLocal) :
          IsStepOp(w, "gpu_copy_xq_to_gpu", "wait", "misc_ops_and_local_H2D_done")


\* ---- C38
\* the lane of record r of the block of entry nb_sci has its atom pair within
\* the cut-off
LaneWithinCutoff(nb_sci, r) ==
    LET xi == xqib(atdat, nbparam, nb_sci, r.p[3], r.ai % c_clSize)
        xj == BufRead(atdat.xq, r.aj)
    IN nbnxn_kernel_withinCutoff((xi.x + xj.x) * (xi.x + xj.x), nbparam.rcoulomb_sq)
\* the cluster and the index in the cluster of an atom
ClusterOf(a) == a \div c_clSize
IndexInCluster(a) == a % c_clSize

\* C38: in a launch of a flavor with exclusion forces, a lane of a cluster
\* paired with itself on the central shift evaluates its atom pair exactly
\* when the pair is within the cut-off and the j atom's index is greater than
\* the i atom's, so no atom is evaluated against itself and of the two lanes
\* of an unordered pair exactly that one evaluates it; a lane of a pair of
\* different clusters, or of a cluster with itself on another shift,
\* evaluates its pair whenever it is within the cut-off.
C38_SelfPairsEvaluatedOnce ==
    (pc.call = "nbnxn_kernel" /\ EXCLUSION_FORCES(pc.flavor)) =>
        \A bidx \in 1..Len(plist[Local].sci) :
            LET nb_sci == plist[Local].sci[bidx]
            IN \A T \in {ThreadsOfBlock(pc.flavor, bidx)} : \A r \in T :
                  IF ClusterOf(r.ai) = ClusterOf(r.aj) /\ nb_sci.shift = c_centralShiftIndex
                  THEN /\ r.evaluated <=>
                             /\ LaneWithinCutoff(nb_sci, r)
                             /\ IndexInCluster(r.aj) > IndexInCluster(r.ai)
                       /\ r.ai = r.aj => ~r.evaluated
                       /\ \A m \in T :
                             (m.p = r.p /\ m.ai = r.aj /\ m.aj = r.ai /\ r.ai # r.aj
                                 /\ LaneWithinCutoff(nb_sci, r))
                                => (r.evaluated # m.evaluated)
                  ELSE r.evaluated <=> LaneWithinCutoff(nb_sci, r)

\* a launch with exclusion forces has run on cluster 0 paired with itself on
\* the central shift: the lane of atoms 0 and 1 evaluated the pair, the
\* mirrored lane and the lanes of an atom with itself did not
C38_Witness ==
    /\ pc.call = "nbnxn_kernel" /\ EXCLUSION_FORCES(pc.flavor)
    /\ Len(plist[Local].sci) = 1
    /\ plist[Local].sci[1].shift = c_centralShiftIndex
    /\ \E r \in ThreadsOfBlock(pc.flavor, 1), m \in ThreadsOfBlock(pc.flavor, 1),
          s \in ThreadsOfBlock(pc.flavor, 1) :
          /\ r.ai = 0 /\ r.aj = 1 /\ r.evaluated
          /\ m.ai = 1 /\ m.aj = 0 /\ ~m.evaluated /\ LaneWithinCutoff(plist[Local].sci[1], m)
          /\ s.ai = 0 /\ s.aj = 0 /\ ~s.evaluated /\ LaneWithinCutoff(plist[Local].sci[1], s)

\* a launch with exclusion forces has run on a cluster paired with itself on
\* a shifted image: a lane whose j atom's index is smaller than its i atom's
\* evaluated its pair
C38_WitnessShifted ==
    /\ pc.call = "nbnxn_kernel" /\ EXCLUSION_FORCES(pc.flavor)
    /\ Len(plist[Local].sci) = 1
    /\ plist[Local].sci[1].shift # c_centralShiftIndex
    /\ \E r \in ThreadsOfBlock(pc.flavor, 1) :
          /\ ClusterOf(r.ai) = ClusterOf(r.aj)
          /\ IndexInCluster(r.aj) < IndexInCluster(r.ai)
          /\ r.evaluated

\* a launch with exclusion forces has run on two different clusters: a lane
\* whose j atom's index equals its i atom's evaluated its pair
C38_WitnessOtherCluster ==
    /\ pc.call = "nbnxn_kernel" /\ EXCLUSION_FORCES(pc.flavor)
    /\ \E bidx \in 1..Len(plist[Local].sci) : \E r \in ThreadsOfBlock(pc.flavor, bidx) :
          /\ ClusterOf(r.ai) # ClusterOf(r.aj)
          /\ IndexInCluster(r.aj) = IndexInCluster(r.ai)
          /\ plist[Local].sci[bidx].shift = c_centralShiftIndex
          /\ r.evaluated


\* ---- C39
\* The accumulator slots of the blocks of a grid.  A grid of MaxBlocks blocks
\* is launched on a list whose entry bidx lies on shift (shift0 + bidx) modulo
\* c_numShiftVectors, every block adding a shift force and energies; the
\* outputs are cleared after each launch with the step's computeVirial.
MaxBlocks == c_clEnergyMemoryMultiplier + 2
\* the block indices the index arithmetic is followed for
BlockIndices == 0..(4 * c_clEnergyMemoryMultiplier + 1)
SlotsList(shift0) ==
    [b \in 1..MaxBlocks |-> SciEntry((shift0 + b - 1) % c_numShiftVectors, 0, 1, 1)]

InitSlots ==
    /\ bUseTwoStreams = FALSE
    /\ bNonLocalStreamDoneMarked = FALSE
    /\ haveWork = [l \in InteractionLocality |-> l = Local]
    /\ nbparam = [vdwType |-> "Cut"]
    /\ \E nbat \in HostAtomdata :
          atdat = gpu_init_atomdata_result(initAtomdataFirst, nbparam.vdwType, nbat,
                                           InitDevState).atdat
    /\ plist = [l \in InteractionLocality |-> IF l = Local THEN init_plist ELSE NoPlist]
    /\ xbuf = [atomIndicesSize |-> 0, atomIndicesSize_alloc |-> 0,
               ncxy_na |-> 0, ncxy_na_alloc |-> 0, ncxy_ind |-> 0, ncxy_ind_alloc |-> 0]
    /\ nbst = [fShift |-> EmptyFn, eLJ |-> 0, eElec |-> 0]
    /\ out_f = EmptyFn
    /\ deviceStreams = InitDevState.q
    /\ ordered = InitDevState.ordered
    /\ nonlocal_done = InitDevState.nonlocal_done
    /\ misc_ops_and_local_H2D_done = InitDevState.misc_ops_and_local_H2D_done
    /\ step = 0
    /\ \E shift0 \in 0..(c_numShiftVectors - 1) :
          pc = [call |-> "gpu_init_atomdata", sci |-> SlotsList(shift0), bidx |-> 0]
    /\ stepWork \in [computeVirial : BOOLEAN, computeEnergy : BOOLEAN,
                     useGpuFBufferOps : {FALSE}]
    /\ isSearchStep = TRUE
    /\ simWork = [haveInteractions |-> FALSE, useGpuXBufferOps |-> FALSE]
    /\ stepAcc = NoStepAcc

\* the launch of the grid of nbnxn_kernel on the list, one block per entry
launch_slots_kernel ==
    /\ pc.call \in {"gpu_init_atomdata", "gpu_clear_outputs"}
    /\ step < MaxLaunches
    /\ pc' = [call |-> "nbnxn_kernel", sci |-> pc.sci, bidx |-> 0]
    /\ step' = step + 1
    /\ UNCHANGED <<bUseTwoStreams, bNonLocalStreamDoneMarked, haveWork, plist, atdat,
                   nbparam, xbuf, nbst, out_f, deviceStreams, ordered, nonlocal_done,
                   misc_ops_and_local_H2D_done, stepWork, isSearchStep, simWork, stepAcc>>

\* the next block of the grid runs
run_slots_block ==
    /\ pc.call = "nbnxn_kernel"
    /\ pc.bidx < Len(pc.sci)
    /\ \E A \in {nbnxn_kernel_block([f |-> atdat.f, fShift |-> atdat.fShift,
                                     eLJ |-> atdat.eLJ, eElec |-> atdat.eElec],
                                    pc.bidx, pc.sci[pc.bidx + 1],
                                    stepWork.computeVirial, stepWork.computeEnergy)} :
          atdat' = [atdat EXCEPT !.f = A.f, !.fShift = A.fShift,
                                 !.eLJ = A.eLJ, !.eElec = A.eElec]
    /\ pc' = [pc EXCEPT !.bidx = @ + 1]
    /\ UNCHANGED <<bUseTwoStreams, bNonLocalStreamDoneMarked, haveWork, plist, nbparam,
                   xbuf, nbst, out_f, deviceStreams, ordered, nonlocal_done,
                   misc_ops_and_local_H2D_done, step, stepWork, isSearchStep, simWork,
                   stepAcc>>

\* gpu_clear_outputs after the grid has run
clear_slots_outputs ==
    /\ pc.call = "nbnxn_kernel"
    /\ pc.bidx = Len(pc.sci)
    /\ atdat' = gpu_clear_outputs_atdat(atdat, stepWork.computeVirial)
    /\ SetDevState(gpu_clear_outputs_dev(DevState, atdat, stepWork.computeVirial))
    /\ pc' = [pc EXCEPT !.call = "gpu_clear_outputs"]
    /\ UNCHANGED <<bUseTwoStreams, bNonLocalStreamDoneMarked, haveWork, plist, nbparam,
                   xbuf, nbst, out_f, step, stepWork, isSearchStep, simWork, stepAcc>>

NextSlots == launch_slots_kernel \/ run_slots_block \/ clear_slots_outputs
SpecSlots == InitSlots /\ [][NextSlots]_vars

\* a & b of non-negative integers
RECURSIVE BitAnd(_, _)
BitAnd(a, b) ==
    IF a = 0 \/ b = 0 THEN 0
    ELSE (a % 2) * (b % 2) + 2 * BitAnd(a \div 2, b \div 2)
\* the indices of a buffer's allocation
IndicesOf(b) == 0..(b.nalloc - 1)
\* the slots block bidx adds to, for an entry on the given shift
EnergySlot(bidx) == energy_index_base(bidx)
ShiftForceSlot(bidx, shift) == shift + shift_index_base(bidx)
\* every slot a block can add to
EnergySlots == {EnergySlot(bidx) : bidx \in BlockIndices}
ShiftForceSlots ==
    {ShiftForceSlot(bidx, shift) : bidx \in BlockIndices, shift \in 0..(c_numShiftVectors - 1)}
\* the slots are those of the kernel's expressions, 1 + (bidx & 63) and
\* shift + c_numShiftVectors * (1 + (bidx & 63))
SlotsAreTheKernels ==
    \A bidx \in BlockIndices :
        /\ EnergySlot(bidx) = 1 + BitAnd(bidx, c_clEnergyMemoryMultiplier - 1)
        /\ \A shift \in 0..(c_numShiftVectors - 1) :
              ShiftForceSlot(bidx, shift)
                  = shift + c_numShiftVectors
                              * (1 + BitAnd(bidx, c_clShiftMemoryMultiplier - 1))

\* C39: for every block index and every shift index the energy slot
\* 1 + (bidx & 63) and the shift-force slot shift + 45 * (1 + (bidx & 63))
\* lie inside the energy buffers of 65 and the shift-force buffer of 65 * 45
\* elements, a launch writes nowhere outside them, and after
\* gpu_clear_outputs with computeVirial every one of these slots is zero.
C39_SlotsInsideBuffersAndCleared ==
    /\ atdat.eLJ.nalloc = c_clEnergyMemoryMultiplier + 1
    /\ atdat.eElec.nalloc = c_clEnergyMemoryMultiplier + 1
    /\ atdat.fShift.nalloc = (c_clShiftMemoryMultiplier + 1) * c_numShiftVectors
    /\ SlotsAreTheKernels
    /\ EnergySlots \subseteq IndicesOf(atdat.eLJ) \cap IndicesOf(atdat.eElec)
    /\ ShiftForceSlots \subseteq IndicesOf(atdat.fShift)
    /\ DOMAIN atdat.eLJ.nz \subseteq IndicesOf(atdat.eLJ)
    /\ DOMAIN atdat.eElec.nz \subseteq IndicesOf(atdat.eElec)
    /\ DOMAIN atdat.fShift.nz \subseteq IndicesOf(atdat.fShift)
    /\ (pc.call = "gpu_clear_outputs" /\ stepWork.computeVirial) =>
          /\ \A k \in ShiftForceSlots : BufRead(atdat.fShift, k) = 0
          /\ \A k \in EnergySlots :
                BufRead(atdat.eLJ, k) = 0 /\ BufRead(atdat.eElec, k) = 0

\* a grid of more blocks than slots has written the last energy slot and the
\* last element of the shift-force buffer
C39_Witness ==
    /\ pc.call = "nbnxn_kernel" /\ pc.bidx > c_clEnergyMemoryMultiplier
    /\ BufRead(atdat.eLJ, atdat.eLJ.nalloc - 1) # 0
    /\ BufRead(atdat.eElec, atdat.eElec.nalloc - 1) # 0
    /\ BufRead(atdat.fShift, atdat.fShift.nalloc - 1) # 0

\* gpu_clear_outputs with computeVirial has cleared the slots such a grid wrote
C39_WitnessCleared ==
    /\ pc.call = "gpu_clear_outputs" /\ stepWork.computeVirial /\ stepWork.computeEnergy
    /\ pc.bidx = MaxBlocks
    /\ AccumulatorsAreZero(atdat)


\* ---- C40
\* of the two per-atom parameter buffers, the one a VdW kernel type uses and
\* the one it does not use
ParameterBufferOf(ad, vdwType) == IF useLjCombRule(vdwType) THEN ad.ljComb ELSE ad.atomTypes
OtherParameterBufferOf(ad, vdwType) ==
    IF useLjCombRule(vdwType) THEN ad.atomTypes ELSE ad.ljComb
IsAllocated(b) == b.nalloc > 0

====
